---- MODULE Spec2Model ----
(***************************************************************************)
(* A model of the financial calculator of src/app.js: the calculator       *)
(* state (the `state` object), one action per event handler, and the TVM   *)
(* mathematics (rate conversion, closed-form solvers, root finders,        *)
(* amortization, NPV, IRR) as operators.                                   *)
(*                                                                         *)
(* Numbers.  A JavaScript value is a record [k, n, d, u]:                  *)
(*   k = "num"   a finite double, known by the fraction n/d (in lowest     *)
(*               terms, d > 0) and the bound u on its rounding error       *)
(*   k = "nan", "pinf", "ninf"   NaN, +Infinity, -Infinity                 *)
(*   k = "null"  null (an unset register)                                  *)
(*   k = "bool"  false (n = 0) or true (n = 1)                             *)
(*   k = "unrep" a finite number that this model does not hold: a          *)
(*               numerator or denominator above MaxNum, an irrational      *)
(*               root or logarithm, or a rounding error above its bounds.  *)
(* The double of a "num" with u = 0 is the double nearest to n/d: n/d      *)
(* itself when d is a power of 2 (every such fraction within MaxNum is a   *)
(* double), the correctly rounded literal, parseFloat result, sum,         *)
(* difference, product or quotient otherwise.  With u > 0 and n # 0 the    *)
(* double lies within u * 2^-53 of n/d, relatively; with u > 0 and n = 0   *)
(* it is the residue of a cancellation, of unknown sign and at most        *)
(* u * 2^-53 in magnitude.  The arithmetic follows IEEE 754: an operation  *)
(* on doubles is the exact result rounded, so its error bound is that of   *)
(* its operands and one rounding.  Two different fractions within MaxNum   *)
(* differ by more than the error bounds allow (MaxUlps), so the order of   *)
(* two doubles is that of their fractions; whether two doubles of one      *)
(* fraction are equal is known only when both have u = 0.  A comparison    *)
(* that the bounds leave open makes the result "unrep".  The IEEE special  *)
(* values follow the IEEE rules (x/0, 0/0, Inf-Inf, NaN comparisons).  The *)
(* sign of a zero is not kept: every zero divisor of this program is       *)
(* pow(+0, n) or 1 + (-1), both +0, so x/0 has the sign of x.  "unrep" is  *)
(* absorbing, and a step whose result is "unrep" is not followed by the    *)
(* model.                                                                  *)
(***************************************************************************)
EXTENDS Integers, Sequences, FiniteSets, TLC

\* Largest numerator magnitude and denominator of a represented number.
MaxNum == 4000000

\* Largest magnitude of an intermediate product (the model checker's integers).
IntLim == 2^30 - 1

\* The largest relative error bound of a number, in units of 2^-53: twice
\* this bound is below the least relative distance 1 / MaxNum^2 of two
\* fractions.  The largest bound of a residue, in the same units: it is
\* below 1e-10.
MaxUlps == 200
MaxTiny == 900000

AbsInt(x) == IF x < 0 THEN -x ELSE x

RECURSIVE Gcd(_, _)
Gcd(a, b) == IF b = 0 THEN a ELSE Gcd(b, a % b)

SafeProd(x, y) == (x = 0) \/ (y = 0) \/ (AbsInt(x) <= IntLim \div AbsInt(y))

NaN == [k |-> "nan", n |-> 0, d |-> 1, u |-> 0]
PosInf == [k |-> "pinf", n |-> 0, d |-> 1, u |-> 0]
NegInf == [k |-> "ninf", n |-> 0, d |-> 1, u |-> 0]
Null == [k |-> "null", n |-> 0, d |-> 1, u |-> 0]
Unrep == [k |-> "unrep", n |-> 0, d |-> 1, u |-> 0]
True == [k |-> "bool", n |-> 1, d |-> 1, u |-> 0]
False == [k |-> "bool", n |-> 0, d |-> 1, u |-> 0]
Zero == [k |-> "num", n |-> 0, d |-> 1, u |-> 0]
One == [k |-> "num", n |-> 1, d |-> 1, u |-> 0]

\* The fraction nn/dd, already in lowest terms with dd > 0, or Unrep when it
\* needs more than MaxNum.
Reduced(nn, dd) ==
    IF AbsInt(nn) > MaxNum \/ dd > MaxNum THEN Unrep
    ELSE [k |-> "num", n |-> nn, d |-> dd, u |-> 0]

\* The fraction n/d whose terms have the common divisor g.
QBy(n, d, g) ==
    IF d < 0 THEN Reduced(-(n \div g), -(d \div g)) ELSE Reduced(n \div g, d \div g)

\* The fraction n/d (d # 0) in lowest terms: the number literal n/d, the
\* double nearest to it.
Q(n, d) == QBy(n, d, Gcd(AbsInt(n), AbsInt(d)))

Whole(n) == Reduced(n, 1)

IsNum(a) == a.k = "num"
IsUnrep(a) == a.k = "unrep"
IsNull(a) == a.k = "null"

\* The number is exactly 0; it is the residue of a cancellation.
IsExactZero(a) == a.k = "num" /\ a.n = 0 /\ a.u = 0
IsTiny(a) == a.k = "num" /\ a.n = 0 /\ a.u > 0

\* x is a power of 2 (x >= 1).
IsPow2(x) == \E j \in 0..22 : x = 2 ^ j

\* The relative error of the double of the finite a # 0 against a.n / a.d, in
\* units of 2^-53: none for a fraction that is a double, one rounding for the
\* double nearest to any other fraction.
Err(a) == IF a.u > 0 THEN a.u ELSE IF IsPow2(a.d) THEN 0 ELSE 1

\* The number a is plus or minus a power of 2: multiplying or dividing by it
\* rounds nothing.
IsScale(a) == a.u = 0 /\ IsPow2(AbsInt(a.n)) /\ IsPow2(a.d)

\* The double within u units of the fraction q # 0.
Within(q, u) ==
    IF q.k # "num" THEN q
    ELSE IF u > MaxUlps THEN Unrep
    ELSE [q EXCEPT !.u = u]

\* A residue of at most c * e + r units.
Residue(c, e, r) ==
    IF ~SafeProd(c, e) THEN Unrep
    ELSE IF c * e + r > MaxTiny THEN Unrep
    ELSE [k |-> "num", n |-> 0, d |-> 1, u |-> c * e + r]

\* The least integer not below |a.n / a.d|, and not below t / |a.n / a.d|.
CeilAbs(a) == (AbsInt(a.n) + a.d - 1) \div a.d
CeilOver(t, a) == (t * a.d + AbsInt(a.n) - 1) \div AbsInt(a.n)

\* ToNumber: null and false are 0, true is 1.
ToNumber(a) ==
    IF a.k = "null" THEN Zero
    ELSE IF a.k = "bool" THEN [k |-> "num", n |-> a.n, d |-> 1, u |-> 0]
    ELSE a

\* isFinite(x)
IsFinite(a) == a.k \in {"num", "null", "bool"}

\* Truthiness of a value used as a condition.
Truthy(a) ==
    CASE a.k = "bool" -> a.n = 1
      [] a.k = "num" -> a.n # 0
      [] a.k \in {"pinf", "ninf"} -> TRUE
      [] OTHER -> FALSE

\* a === b
StrictEq(a, b) == a.k = b.k /\ a.k # "nan" /\ a.n = b.n /\ a.d = b.d

\* The doubles a and b are equal up to rounding: they are rounded from one
\* fraction.
SameValue(a, b) == a.k = b.k /\ a.n = b.n /\ a.d = b.d

\* The fraction that the double a is rounded from.
Unrounded(a) == [a EXCEPT !.u = 0]

\* The sign of a number or infinity: -1, 0, 1.
Sign(a) ==
    CASE a.k = "pinf" -> 1
      [] a.k = "ninf" -> -1
      [] a.k = "num" -> (IF a.n > 0 THEN 1 ELSE IF a.n < 0 THEN -1 ELSE 0)
      [] OTHER -> 0

InfOfSign(s) == IF s > 0 THEN PosInf ELSE NegInf

\* -a, for a number a.
NegNum(a) ==
    CASE a.k = "num" -> [a EXCEPT !.n = -a.n]
      [] a.k = "pinf" -> NegInf
      [] a.k = "ninf" -> PosInf
      [] OTHER -> a

Neg(a0) == NegNum(ToNumber(a0))

\* Math.abs(a), for a number a.
AbsNum(a) ==
    CASE a.k = "num" -> [a EXCEPT !.n = AbsInt(a.n)]
      [] a.k = "ninf" -> PosInf
      [] OTHER -> a

Abs(a0) == AbsNum(ToNumber(a0))

\* The sum of the fractions of a and b.
FracSum(a, b) ==
    IF SafeProd(a.n, b.d) /\ SafeProd(b.n, a.d) /\ SafeProd(a.d, b.d)
    THEN Q(a.n * b.d + b.n * a.d, a.d * b.d)
    ELSE Unrep

\* The product of the fractions an/ad and bn/bd, cross-reduced.
MulBy(an, ad, bn, bd) ==
    IF SafeProd(an, bn) /\ SafeProd(ad, bd) THEN Q(an * bn, ad * bd) ELSE Unrep

\* The product of two fractions, g1 dividing a.n and b.d, g2 b.n and a.d.
MulReduced(a, b, g1, g2) ==
    MulBy(a.n \div g1, a.d \div g2, b.n \div g2, b.d \div g1)

\* The product of the fractions of a and b.
FracProd(a, b) == MulReduced(a, b, Gcd(AbsInt(a.n), b.d), Gcd(AbsInt(b.n), a.d))

\* The quotient of the fractions of a and b (b.n # 0).
FracQuot(a, b) ==
    IF b.n < 0 THEN FracProd(a, [k |-> "num", n |-> -b.d, d |-> -b.n, u |-> 0])
    ELSE FracProd(a, [k |-> "num", n |-> b.d, d |-> b.n, u |-> 0])

\* The order of the fractions with integer parts q1, q2 and remainders r1/d1,
\* r2/d2: -1, 0 or 1 (by comparing their continued fractions).
RECURSIVE CmpParts(_, _, _, _, _, _)
CmpParts(q1, r1, d1, q2, r2, d2) ==
    IF q1 # q2 THEN (IF q1 < q2 THEN -1 ELSE 1)
    ELSE IF r1 = 0 THEN (IF r2 = 0 THEN 0 ELSE -1)
    ELSE IF r2 = 0 THEN 1
    ELSE CmpParts(d2 \div r2, d2 % r2, r2, d1 \div r1, d1 % r1, r1)

\* The order of two fractions n1/d1 and n2/d2 (d1, d2 > 0): -1, 0 or 1, found
\* without multiplying.
CmpFrac(n1, d1, n2, d2) == CmpParts(n1 \div d1, n1 % d1, d1, n2 \div d2, n2 % d2, d2)

\* x + t for a residue of t units: x moves by at most t / |x|, relatively.
Nudged(x, t) ==
    IF ~SafeProd(t, x.d) THEN Unrep
    ELSE Within([x EXCEPT !.u = 0], Err(x) + CeilOver(t, x) + 1)

\* The least integer not below |a / q| + 1, for fractions a and q # 0; -1 when
\* it is beyond the integers of the model.
CeilRatio(a, q) ==
    IF SafeProd(a.n, q.d) /\ SafeProd(q.n, a.d)
    THEN (AbsInt(a.n) * q.d + AbsInt(q.n) * a.d - 1) \div (AbsInt(q.n) * a.d) + 1
    ELSE -1

\* A difference q of operands with the errors e, each of them at most `ratio`
\* times q in magnitude: the errors grow by that factor.
Cancelled(q, e, ratio) ==
    IF ratio < 0 \/ ~SafeProd(ratio, e) THEN Unrep
    ELSE Within(q, ratio * e + 1)

\* a + b for finite a, b # 0 with the sum q of their fractions.  Operands that
\* are nearest doubles of opposite fractions are opposite doubles, sum 0.
SumOf(a, b, q) ==
    IF q.k # "num" THEN q
    ELSE IF q.n = 0
         THEN (IF a.u = 0 /\ b.u = 0 THEN Zero ELSE Residue(CeilAbs(a), Err(a) + Err(b), 0))
    ELSE IF Err(a) = 0 /\ Err(b) = 0 THEN q
    ELSE IF (a.n > 0) = (b.n > 0)
         THEN Within(q, (IF Err(a) > Err(b) THEN Err(a) ELSE Err(b)) + 1)
    ELSE Cancelled(q, Err(a) + Err(b), CeilRatio(a, q))

\* a + b, for finite numbers a and b.
AddFinite(a, b) ==
    IF IsExactZero(a) THEN b
    ELSE IF IsExactZero(b) THEN a
    ELSE IF a.n = 0 /\ b.n = 0 THEN Residue(1, a.u + b.u, 0)
    ELSE IF a.n = 0 THEN Nudged(b, a.u)
    ELSE IF b.n = 0 THEN Nudged(a, b.u)
    ELSE SumOf(a, b, FracSum(a, b))

\* a + b, for numbers a and b.
AddNum(a, b) ==
    IF a.k = "unrep" \/ b.k = "unrep" THEN Unrep
    ELSE IF a.k = "nan" \/ b.k = "nan" THEN NaN
    ELSE IF a.k # "num" THEN (IF b.k # "num" /\ b.k # a.k THEN NaN ELSE a)
    ELSE IF b.k # "num" THEN b
    ELSE AddFinite(a, b)

\* a + b
Add(a0, b0) == AddNum(ToNumber(a0), ToNumber(b0))

\* a - b
Sub(a0, b0) == AddNum(ToNumber(a0), NegNum(ToNumber(b0)))

\* a * b for finite a, b # 0 with the product q of their fractions.
ProductOf(a, b, q) ==
    IF q.k # "num" THEN q
    ELSE IF IsScale(b) THEN Within(q, a.u)
    ELSE IF IsScale(a) THEN Within(q, b.u)
    ELSE IF Err(a) = 0 /\ Err(b) = 0 THEN q
    ELSE Within(q, Err(a) + Err(b) + 1)

\* a * b, for finite numbers a and b.
MulFinite(a, b) ==
    IF IsExactZero(a) \/ IsExactZero(b) THEN Zero
    ELSE IF a.n = 0 /\ b.n = 0 THEN Residue(1, 1, 0)
    ELSE IF a.n = 0 THEN Residue(CeilAbs(b), a.u, 1)
    ELSE IF b.n = 0 THEN Residue(CeilAbs(a), b.u, 1)
    ELSE ProductOf(a, b, FracProd(a, b))

\* a * b, for numbers a and b.
MulNum(a, b) ==
    IF a.k = "unrep" \/ b.k = "unrep" THEN Unrep
    ELSE IF a.k = "nan" \/ b.k = "nan" THEN NaN
    ELSE IF a.k # "num" \/ b.k # "num"
         THEN (IF IsTiny(a) \/ IsTiny(b) THEN Unrep
               ELSE IF Sign(a) * Sign(b) = 0 THEN NaN
               ELSE InfOfSign(Sign(a) * Sign(b)))
    ELSE MulFinite(a, b)

\* a * b
Mul(a0, b0) == MulNum(ToNumber(a0), ToNumber(b0))

\* a / b for finite a, b # 0 with the quotient q of their fractions.  Operands
\* that are nearest doubles of one fraction are one double, quotient 1.
QuotientOf(a, b, q) ==
    IF q.k # "num" THEN q
    ELSE IF IsScale(b) THEN Within(q, a.u)
    ELSE IF a.u = 0 /\ b.u = 0 /\ q.d = 1 /\ AbsInt(q.n) = 1 THEN q
    ELSE IF Err(a) = 0 /\ Err(b) = 0 THEN q
    ELSE Within(q, Err(a) + Err(b) + 1)

\* a / b, for finite numbers a and b.
DivFinite(a, b) ==
    IF IsTiny(b) THEN Unrep
    ELSE IF b.n = 0
         THEN (IF IsExactZero(a) THEN NaN
               ELSE IF a.n = 0 THEN Unrep
               ELSE InfOfSign(Sign(a)))
    ELSE IF IsExactZero(a) THEN Zero
    ELSE IF a.n = 0
         THEN (IF SafeProd(a.u, b.d) THEN Residue(1, CeilOver(a.u, b), 1) ELSE Unrep)
    ELSE QuotientOf(a, b, FracQuot(a, b))

\* a / b, for numbers a and b.
DivNum(a, b) ==
    IF a.k = "unrep" \/ b.k = "unrep" THEN Unrep
    ELSE IF a.k = "nan" \/ b.k = "nan" THEN NaN
    ELSE IF b.k # "num"
         THEN (IF a.k # "num" THEN NaN ELSE Zero)
    ELSE IF a.k # "num"
         THEN (IF IsTiny(b) THEN Unrep
               ELSE InfOfSign(Sign(a) * (IF b.n < 0 THEN -1 ELSE 1)))
    ELSE DivFinite(a, b)

\* a / b
Div(a0, b0) == DivNum(ToNumber(a0), ToNumber(b0))

\* The double of a is not known to differ from the double of b: they have one
\* fraction, and not both are its nearest double.
VagueNum(a, b) ==
    \/ IsUnrep(a) \/ IsUnrep(b)
    \/ /\ a.k = "num" /\ b.k = "num"
       /\ a.n = b.n /\ a.d = b.d
       /\ a.u > 0 \/ b.u > 0

\* The order of a and b is not known.
Vague(a0, b0) == VagueNum(ToNumber(a0), ToNumber(b0))

\* The sign of a is not known.
VagueSign(a0) == IsUnrep(ToNumber(a0)) \/ IsTiny(ToNumber(a0))

\* a * b < 0 and a * b > 0, for numbers whose signs are known: the product of
\* two doubles has the sign that its factors give it, and is NaN for 0 * Inf.
NegativeProduct(a0, b0) == Sign(ToNumber(a0)) * Sign(ToNumber(b0)) < 0
PositiveProduct(a0, b0) == Sign(ToNumber(a0)) * Sign(ToNumber(b0)) > 0

\* a * b > 0, and the signs of both are known.
SurelyPositiveProduct(a0, b0) ==
    ~VagueSign(a0) /\ ~VagueSign(b0) /\ PositiveProduct(a0, b0)

\* a < b, for numbers a and b (false when either is NaN).
LtNum(a, b) ==
    IF a.k \in {"nan", "unrep"} \/ b.k \in {"nan", "unrep"} THEN FALSE
    ELSE IF a.k = "pinf" \/ b.k = "ninf" THEN FALSE
    ELSE IF a.k = "ninf" \/ b.k = "pinf" THEN TRUE
    ELSE CmpFrac(a.n, a.d, b.n, b.d) < 0

\* a < b
Lt(a0, b0) == LtNum(ToNumber(a0), ToNumber(b0))

\* a > b
Gt(a0, b0) == LtNum(ToNumber(b0), ToNumber(a0))

\* a <= b, for numbers a and b (false when either is NaN).
LeNum(a, b) ==
    IF a.k \in {"nan", "unrep"} \/ b.k \in {"nan", "unrep"} THEN FALSE
    ELSE IF a.k # "num" \/ b.k # "num" THEN (a.k = b.k \/ a.k = "ninf" \/ b.k = "pinf")
    ELSE CmpFrac(a.n, a.d, b.n, b.d) <= 0

\* a <= b
Le(a0, b0) == LeNum(ToNumber(a0), ToNumber(b0))

\* a >= b
Ge(a0, b0) == LeNum(ToNumber(b0), ToNumber(a0))

\* |n| * 10^e < d, found without forming 10^e.
RECURSIVE ScaledLt(_, _, _)
ScaledLt(n, d, e) ==
    IF e = 0 THEN n < d
    ELSE IF n > d \div 10 THEN FALSE
    ELSE ScaledLt(n * 10, d, e - 1)

\* The most units of a residue that is surely below 10^(-e): 2^53 / 10^e.
TinyLimit(e) ==
    IF e <= 10 THEN MaxTiny ELSE IF e <= 12 THEN 9007 ELSE IF e <= 15 THEN 9 ELSE 0

\* Whether Math.abs(x) is below 10^(-e) is not known: a residue above the
\* limit, or a rounded double of the fraction 10^(-e) itself.
VagueAbsNum(a, e) ==
    \/ IsUnrep(a)
    \/ /\ a.k = "num" /\ a.u > 0
       /\ IF a.n = 0 THEN a.u > TinyLimit(e)
          ELSE AbsInt(a.n) = 1 /\ e <= 6 /\ a.d = 10 ^ e

VagueAbs(a0, e) == VagueAbsNum(ToNumber(a0), e)

\* Math.abs(x) < 10^(-e), for a threshold such as 1e-10.
AbsLtPow10(a0, e) ==
    ToNumber(a0).k = "num" /\ ScaledLt(AbsInt(ToNumber(a0).n), ToNumber(a0).d, e)

\* |n| * 10^e > d.
RECURSIVE ScaledGt(_, _, _)
ScaledGt(n, d, e) ==
    IF e = 0 THEN n > d
    ELSE IF n > d \div 10 THEN TRUE
    ELSE ScaledGt(n * 10, d, e - 1)

\* Math.abs(x) > 10^(-e)
AbsGtPow10(a0, e) ==
    \/ ToNumber(a0).k \in {"pinf", "ninf"}
    \/ ToNumber(a0).k = "num" /\ ScaledGt(AbsInt(ToNumber(a0).n), ToNumber(a0).d, e)

\* The doubles of a and b differ by more than 1e-6: their fractions differ by
\* more than 1e-5, and the errors of both are below that.
Apart(a0, b0) ==
    /\ ToNumber(a0).k = "num" /\ ToNumber(b0).k = "num"
    /\ AbsGtPow10(FracSum(ToNumber(a0), NegNum(ToNumber(b0))), 5)

\* Math.floor(a), for a number a: a rounded double of a whole fraction may lie
\* below it.
FloorNum(a) ==
    IF a.k # "num" THEN a
    ELSE IF a.u > 0 /\ a.d = 1 THEN Unrep
    ELSE Whole(a.n \div a.d)

\* Math.floor(x)
Floor(a0) == FloorNum(ToNumber(a0))

\* Number.isInteger(x)
IsInteger(a) == a.k = "num" /\ a.d = 1 /\ a.u = 0

\* h * h, as fractions.
Square(h) == IF h.k # "num" THEN Unrep ELSE FracProd(h, h)

\* The fraction x^e for an integer e >= 0 and a finite x, by squaring.
RECURSIVE PowNat(_, _)
PowNat(x, e) ==
    IF e = 0 THEN One
    ELSE IF e % 2 = 0 THEN Square(PowNat(x, e \div 2))
    ELSE IF PowNat(x, e - 1).k # "num" THEN Unrep
    ELSE FracProd(x, PowNat(x, e - 1))

\* The integer r in lo..hi with r^q = m, or -1 when there is none (binary
\* search: RootStep decides on the midpoint r, whose q-th power is p).
RECURSIVE RootSearch(_, _, _, _)
RootStep(m, q, lo, hi, r, p) ==
    IF p.k = "num" /\ p.n = m THEN r
    ELSE IF p.k # "num" \/ p.n > m THEN RootSearch(m, q, lo, r - 1)
    ELSE RootSearch(m, q, r + 1, hi)

RootSearch(m, q, lo, hi) ==
    IF lo > hi THEN -1
    ELSE RootStep(m, q, lo, hi, (lo + hi) \div 2, PowNat(Whole((lo + hi) \div 2), q))

\* rn/rd, the roots of a numerator and a denominator (-1: no integer root).
RootOf(rn, rd) == IF rn < 0 \/ rd < 0 THEN Unrep ELSE Q(rn, rd)

\* The fraction x^(1/q) for a finite x > 0: the root when x is a perfect q-th
\* power, else Unrep.
RootQ(x, q) == RootOf(RootSearch(x.n, q, 0, x.n), RootSearch(x.d, q, 1, x.d))

\* x^e for an infinite e and a finite x, c the order of |x| and 1.
PowInfinite(e, c) ==
    IF c = 0 THEN NaN
    ELSE IF (c > 0) = (e.k = "pinf") THEN PosInf ELSE Zero

\* The fraction p (k > 0) or 1 / p (k < 0), for a power p # 0.
PowSigned(p, k) ==
    IF k > 0 \/ p.k # "num" THEN p
    ELSE IF p.n < 0 THEN Reduced(-p.d, -p.n)
    ELSE Reduced(p.d, p.n)

\* The fraction x^k for an integer k # 0 and a finite x # 0.
FracPow(x, k) == PowSigned(PowNat(x, AbsInt(k)), k)

\* The error of Math.pow(x, e) for a finite x # 0 and a fraction e # 0, in
\* units (-1: beyond the numbers of the model).  For an integer e: none when
\* the power is a double (Math.pow returns a power that is a double exactly),
\* else one unit in the last place and |e| times the error of x.  For any
\* other e the power moves with x by |e| and with e by the logarithm of the
\* power, below 16.
PowUnits(x, e) ==
    IF e.d = 1 /\ Err(x) = 0 /\ (e.n > 0 \/ IsPow2(AbsInt(x.n))) THEN 0
    ELSE IF ~SafeProd(CeilAbs(e), Err(x)) THEN -1
    ELSE CeilAbs(e) * Err(x) + 16 * Err(e) + 2

\* The double within `units` of the fraction r^k, r the root of the base.
PowWithin(r, k, units) ==
    IF r.k # "num" \/ units < 0 THEN Unrep
    ELSE Within(FracPow(r, k), units)

\* Math.pow(x, e), for numbers x and e.
PowNum(x, e) ==
    IF IsExactZero(e) THEN One
    ELSE IF x.k = "unrep" \/ e.k = "unrep" \/ IsTiny(x) \/ IsTiny(e) THEN Unrep
    ELSE IF x.k = "nan" \/ e.k = "nan" THEN NaN
    ELSE IF e.k # "num"
         THEN (IF x.k # "num" THEN (IF e.k = "pinf" THEN PosInf ELSE Zero)
               ELSE IF x.u > 0 /\ AbsInt(x.n) = x.d THEN Unrep
               ELSE PowInfinite(e, CmpFrac(AbsInt(x.n), x.d, 1, 1)))
    ELSE IF x.k = "pinf" THEN (IF e.n > 0 THEN PosInf ELSE Zero)
    ELSE IF x.k = "ninf"
         THEN (IF e.n < 0 THEN Zero
               ELSE IF e.u > 0 /\ e.d = 1 THEN Unrep
               ELSE IF e.d = 1 /\ e.n % 2 = 1 THEN NegInf ELSE PosInf)
    ELSE IF x.n = 0 THEN (IF e.n > 0 THEN Zero ELSE PosInf)
    ELSE IF x = One THEN One
    ELSE IF e.u > 0 THEN Unrep
    ELSE IF e.d = 1 /\ e.n = 1 THEN x
    ELSE IF e.d # 1 /\ x.n < 0 THEN NaN
    ELSE PowWithin(IF e.d = 1 THEN [x EXCEPT !.u = 0] ELSE RootQ(x, e.d), e.n,
                   PowUnits(x, e))

\* Math.pow(x, e)
Pow(x0, e0) == PowNum(ToNumber(x0), ToNumber(e0))

(***************************************************************************)
(* TVM mathematics (src/app.js, "TVM MATH").  A local constant of the      *)
(* source that is read more than once is a parameter of a helper operator. *)
(***************************************************************************)

\* getPeriodicRate, for r = nominalRate / 100.
periodicRateOf(r, cy, py) ==
    IF StrictEq(cy, py) THEN Div(r, py)
    ELSE Sub(Pow(Add(One, Div(r, cy)), Div(cy, py)), One)

\* getPeriodicRate(nominalRate, cy, py)
getPeriodicRate(nominalRate, cy, py) == periodicRateOf(Div(nominalRate, Whole(100)), cy, py)

\* An annuity factor that is the same for both timings: the factor of a
\* calculator whose BGN setting has no effect on payments.
factorIgnoringTiming(factor, i, isBegin) == factor

\* annuityFactor: isBegin ? factor * (1 + i) : factor
factorForTiming(factor, i, isBegin) ==
    IF Truthy(isBegin) THEN Mul(factor, Add(One, i)) ELSE factor

\* annuityFactor(i, n, isBegin)
annuityFactor(i, n, isBegin) ==
    IF VagueAbs(i, 10) THEN Unrep
    ELSE IF AbsLtPow10(i, 10) THEN ToNumber(n)
    ELSE factorForTiming(Div(Sub(Pow(Add(One, i), n), One), i), i, isBegin)

\* solveFV(n, i, pv, pmt, isBegin)
solveFV(n, i, pv, pmt, isBegin) ==
    Add(Mul(pv, Pow(Add(One, i), n)), Mul(pmt, annuityFactor(i, n, isBegin)))

\* A present value that discounts the payments as an ordinary annuity whatever
\* the timing: solvePV without its isBegin argument.
solvePVOrdinary(n, i, pmt, fv, isBegin) ==
    Div(Sub(fv, Mul(pmt, annuityFactor(i, n, False))), Pow(Add(One, i), n))

\* solvePV(n, i, pmt, fv, isBegin)
solvePV(n, i, pmt, fv, isBegin) ==
    Div(Sub(fv, Mul(pmt, annuityFactor(i, n, isBegin))), Pow(Add(One, i), n))

\* solvePMT, for af = annuityFactor(i, n, isBegin).
paymentFor(n, i, pv, fv, af) ==
    IF VagueAbs(af, 15) THEN Unrep
    ELSE IF AbsLtPow10(af, 15) THEN NaN
    ELSE Div(Sub(fv, Mul(pv, Pow(Add(One, i), n))), af)

\* solvePMT(n, i, pv, fv, isBegin)
solvePMT(n, i, pv, fv, isBegin) == paymentFor(n, i, pv, fv, annuityFactor(i, n, isBegin))

\* The k >= 0 with b^k = r, for fractions r >= 1 and b > 1, or -1 when r is no
\* whole power of b.
RECURSIVE PowerOf(_, _, _)
PowerOf(r, b, k) ==
    IF r.k # "num" THEN -1
    ELSE IF r.n = r.d THEN k
    ELSE IF r.n < r.d THEN -1
    ELSE PowerOf(FracQuot(r, b), b, k + 1)

\* x if x >= 1, else 1/x, for a fraction x > 0.
AtLeastOne(x) ==
    IF x.n >= x.d THEN [x EXCEPT !.u = 0] ELSE [k |-> "num", n |-> x.d, d |-> x.n, u |-> 0]

\* The growth of a relative error of x > 0 (x # 1) in Math.log(x): 1 / |log x|,
\* which max(x, 1) / |x - 1| bounds.
LogGrowth(x) ==
    IF x.n > x.d THEN (x.n + (x.n - x.d) - 1) \div (x.n - x.d)
    ELSE (x.d + (x.d - x.n) - 1) \div (x.d - x.n)

\* The error of a quotient of logarithms: their two roundings, that of the
\* division, and the errors of ratio and base.
LogErr(ratio, base) ==
    3 + Err(ratio) * LogGrowth(ratio) + Err(base) * LogGrowth(base)

\* The exponent k, negated when ratio and base lie on different sides of 1,
\* within e units.
SignedPower(k, sameSide, e) ==
    IF k < 0 THEN Unrep ELSE IF sameSide THEN Within(Whole(k), e) ELSE Within(Whole(-k), e)

\* Math.log(ratio) / Math.log(base) for ratio > 0 or NaN and base = 1 + i: the
\* exponent e with base^e = ratio, a fraction when ratio is a whole power of
\* base, which the quotient of the two rounded logarithms is near to; any other
\* finite quotient is irrational and Unrep.  Math.log(1) is 0.
LogQuotient(ratio, base) ==
    IF IsUnrep(ratio) \/ IsUnrep(base) \/ IsTiny(ratio) \/ IsTiny(base) THEN Unrep
    ELSE IF ratio.k = "nan" \/ base.k = "nan" \/ Sign(base) < 0 THEN NaN
    ELSE IF ratio.k = "pinf"
         THEN (IF base.k = "pinf" \/ Sign(base) = 0 THEN NaN
               ELSE IF base.n = base.d /\ base.u > 0 THEN Unrep
               ELSE IF base.n < base.d THEN NegInf ELSE PosInf)
    ELSE IF base.k = "pinf" \/ Sign(base) = 0
         THEN (IF ratio.n = ratio.d /\ ratio.u > 0 THEN Unrep ELSE Zero)
    ELSE IF base.n = base.d
         THEN (IF base.u > 0 \/ (ratio.n = ratio.d /\ ratio.u > 0) THEN Unrep
               ELSE IF ratio.n = ratio.d THEN NaN
               ELSE IF ratio.n > ratio.d THEN PosInf ELSE NegInf)
    ELSE IF ratio.n = ratio.d THEN (IF ratio.u > 0 THEN Unrep ELSE Zero)
    ELSE SignedPower(PowerOf(AtLeastOne(ratio), AtLeastOne(base), 0),
                     (ratio.n >= ratio.d) = (base.n > base.d), LogErr(ratio, base))

\* The residual f(n) of solveNNumeric: FV - PV*(1+i)^n - PMT*AF.
residualN(i, pv, pmt, fv, isBegin, n) ==
    IF VagueSign(n) THEN Unrep
    ELSE IF Le(n, Zero) THEN Sub(fv, pv)
    ELSE Sub(Sub(fv, Mul(pv, Pow(Add(One, i), n))), Mul(pmt, annuityFactor(i, n, isBegin)))

\* solveNNumeric, "Try to find better bounds": the first test in 1, 10, ...,
\* 10000 with f(test) * fLo < 0 becomes hi (probeNAt decides on f(test) = ft).
RECURSIVE probeN(_, _, _, _, _, _, _, _)
probeNAt(i, pv, pmt, fv, isBegin, fLo, hi, test, ft) ==
    IF VagueSign(ft) THEN Unrep
    ELSE IF NegativeProduct(ft, fLo) THEN Whole(test)
    ELSE probeN(i, pv, pmt, fv, isBegin, fLo, hi, test * 10)

probeN(i, pv, pmt, fv, isBegin, fLo, hi, test) ==
    IF test > 10000 THEN hi
    ELSE probeNAt(i, pv, pmt, fv, isBegin, fLo, hi, test,
                  residualN(i, pv, pmt, fv, isBegin, Whole(test)))

\* solveNNumeric, the bisection loop.  hiKept: hi is still the initial upper end.
\* A midpoint finer than the fractions of the model: when every step so far has
\* moved lo (hiKept) and f has one sign at lo and at hi, the remaining halvings
\* keep moving lo and the midpoint of the doubles reaches hi (100 halvings exceed
\* the 53 bits of a double), so the result is hi; otherwise the result is Unrep.
\* bisectNAt decides on the midpoint mid, with fMid = f(mid) and fl = f(lo).
RECURSIVE bisectN(_, _, _, _, _, _, _, _, _)
bisectNAt(i, pv, pmt, fv, isBegin, lo, hi, iter, hiKept, mid, fMid, fl) ==
    IF IsUnrep(lo) \/ IsUnrep(hi) THEN Unrep
    ELSE IF IsUnrep(mid)
         THEN (IF hiKept /\ SurelyPositiveProduct(fl, residualN(i, pv, pmt, fv, isBegin, hi))
               THEN hi ELSE Unrep)
    ELSE IF iter >= 100 THEN mid
    ELSE IF IsUnrep(fMid) \/ IsUnrep(fl) THEN Unrep
    ELSE IF AbsLtPow10(fMid, 10) THEN mid
    ELSE IF VagueSign(fl) THEN Unrep
    ELSE IF NegativeProduct(fl, fMid)
         THEN bisectN(i, pv, pmt, fv, isBegin, lo, mid, iter + 1, FALSE)
         ELSE bisectN(i, pv, pmt, fv, isBegin, mid, hi, iter + 1, hiKept)

bisectNMid(i, pv, pmt, fv, isBegin, lo, hi, iter, hiKept, mid) ==
    bisectNAt(i, pv, pmt, fv, isBegin, lo, hi, iter, hiKept, mid,
              residualN(i, pv, pmt, fv, isBegin, mid),
              residualN(i, pv, pmt, fv, isBegin, lo))

bisectN(i, pv, pmt, fv, isBegin, lo, hi, iter, hiKept) ==
    bisectNMid(i, pv, pmt, fv, isBegin, lo, hi, iter, hiKept, Div(Add(lo, hi), Whole(2)))

\* solveNNumeric, the bisection from lo to hi, hi0 the initial upper end.
bisectNFrom(i, pv, pmt, fv, isBegin, lo, hi0, hi) ==
    bisectN(i, pv, pmt, fv, isBegin, lo, hi, 0, hi = hi0)

\* solveNNumeric from "Find bounds" on: lo = 0.01, hi0 = 1000, fLo = f(lo),
\* fHi = f(hi0).
solveNBounds(i, pv, pmt, fv, isBegin, lo, hi0, fLo, fHi) ==
    IF VagueSign(fLo) \/ VagueSign(fHi) THEN Unrep
    ELSE bisectNFrom(i, pv, pmt, fv, isBegin, lo, hi0,
                     IF PositiveProduct(fLo, fHi)
                     THEN probeN(i, pv, pmt, fv, isBegin, fLo, hi0, 1)
                     ELSE hi0)

\* solveNNumeric(i, pv, pmt, fv, isBegin)
solveNNumeric(i, pv, pmt, fv, isBegin) ==
    solveNBounds(i, pv, pmt, fv, isBegin, Q(1, 100), Whole(1000),
                 residualN(i, pv, pmt, fv, isBegin, Q(1, 100)),
                 residualN(i, pv, pmt, fv, isBegin, Whole(1000)))

\* solveN, the lump sum (PMT = 0) for ratio = fv / pv.
lumpSumN(ratio, i) ==
    IF VagueSign(ratio) THEN Unrep
    ELSE IF Le(ratio, Zero) THEN NaN
    ELSE LogQuotient(ratio, Add(One, i))

\* solveN whose zero-rate branch divides the other way round: (pv - fv) / pmt
\* for its "(fv - pv) / pmt".
solveNReversed(i, pv, pmt, fv, isBegin) ==
    IF VagueAbs(i, 10) \/ VagueAbs(pmt, 15) THEN Unrep
    ELSE IF AbsLtPow10(i, 10)
         THEN (IF AbsLtPow10(pmt, 15) THEN NaN ELSE Div(Sub(pv, fv), pmt))
    ELSE IF AbsLtPow10(pmt, 15)
         THEN (IF VagueAbs(pv, 15) THEN Unrep
               ELSE IF AbsLtPow10(pv, 15) THEN NaN
               ELSE lumpSumN(Div(fv, pv), i))
    ELSE solveNNumeric(i, pv, pmt, fv, isBegin)

\* solveN(i, pv, pmt, fv, isBegin)
solveN(i, pv, pmt, fv, isBegin) ==
    IF VagueAbs(i, 10) \/ VagueAbs(pmt, 15) THEN Unrep
    ELSE IF AbsLtPow10(i, 10)
         THEN (IF AbsLtPow10(pmt, 15) THEN NaN ELSE Div(Sub(fv, pv), pmt))
    ELSE IF AbsLtPow10(pmt, 15)
         THEN (IF VagueAbs(pv, 15) THEN Unrep
               ELSE IF AbsLtPow10(pv, 15) THEN NaN
               ELSE lumpSumN(Div(fv, pv), i))
    ELSE solveNNumeric(i, pv, pmt, fv, isBegin)

\* The residual f(i) of solveIY: FV - PV*(1+i)^N - PMT*AF.
residualI(n, pv, pmt, fv, isBegin, i) ==
    Sub(Sub(fv, Mul(pv, Pow(Add(One, i), n))), Mul(pmt, annuityFactor(i, n, isBegin)))

\* df: isBegin ? (dAf * onePlusI + af) : dAf
dAfBgn(dAf, af, onePlusI, isBegin) ==
    IF Truthy(isBegin) THEN Add(Mul(dAf, onePlusI), af) ELSE dAf

\* df for |i| >= 1e-10, with onePlusIN = (1+i)^n and dCompound = n * (1+i)^(n-1).
derivativeAt(pv, pmt, isBegin, i, onePlusI, onePlusIN, dCompound) ==
    Sub(Mul(Neg(pv), dCompound),
        Mul(pmt, dAfBgn(Div(Sub(Mul(dCompound, i), Sub(onePlusIN, One)), Mul(i, i)),
                        Div(Sub(onePlusIN, One), i), onePlusI, isBegin)))

\* df for |i| >= 1e-10, with onePlusI = 1 + i.
derivativeFrom(n, pv, pmt, isBegin, i, onePlusI) ==
    derivativeAt(pv, pmt, isBegin, i, onePlusI, Pow(onePlusI, n),
                 Mul(n, Pow(onePlusI, Sub(n, One))))

\* The derivative df(i) of solveIY.
derivativeI(n, pv, pmt, isBegin, i) ==
    IF VagueAbs(i, 10) THEN Unrep
    ELSE IF AbsLtPow10(i, 10)
         THEN Sub(Mul(Neg(pv), n), Div(Mul(Mul(pmt, n), Add(n, One)), Whole(2)))
    ELSE derivativeFrom(n, pv, pmt, isBegin, i, Add(One, i))

\* The step to newI with no upper bound on the rate.
unboundedRate(i, newI) == newI

\* solveIY, "Keep rate in reasonable bounds".
boundedRate(i, newI) ==
    IF Vague(newI, Whole(10)) THEN Unrep
    ELSE IF Gt(newI, Whole(10)) THEN Div(Add(i, Whole(10)), Whole(2))
    ELSE newI

raisedRate(i, newI) ==
    IF Vague(newI, Q(-99, 100)) THEN Unrep
    ELSE boundedRate(i, IF Le(newI, Q(-99, 100)) THEN Div(i, Whole(2)) ELSE newI)

\* solveIY, the Newton-Raphson loop: the bestI it leaves.  newtonAt is one
\* iteration from the tests on fVal = f(i) and dfVal = df(i) on, newtonMove the
\* step to newI.
RECURSIVE newtonI(_, _, _, _, _, _, _, _, _)
newtonMove(n, pv, pmt, fv, isBegin, i, bestI, bestF, iter, newI) ==
    IF IsUnrep(newI) THEN Unrep
    ELSE IF Apart(newI, i)
         THEN newtonI(n, pv, pmt, fv, isBegin, newI, bestI, bestF, iter + 1)
    ELSE IF VagueAbs(Sub(newI, i), 12) THEN Unrep
    ELSE IF AbsLtPow10(Sub(newI, i), 12) THEN newI
    ELSE newtonI(n, pv, pmt, fv, isBegin, newI, bestI, bestF, iter + 1)

newtonKeep(n, pv, pmt, fv, isBegin, i, bestI, bestF, iter, fVal, dfVal) ==
    IF VagueAbs(dfVal, 15) THEN Unrep
    ELSE IF AbsLtPow10(dfVal, 15) THEN bestI
    ELSE newtonMove(n, pv, pmt, fv, isBegin, i, bestI, bestF, iter,
                    raisedRate(i, Sub(i, Div(fVal, dfVal))))

\* "Math.abs(fVal) < bestF": at i = bestI both are Math.abs(f(bestI)), and
\* either outcome leaves bestI and bestF as they are.
newtonAt(n, pv, pmt, fv, isBegin, i, bestI, bestF, iter, fVal) ==
    IF IsUnrep(fVal) \/ IsUnrep(bestF) THEN Unrep
    ELSE IF AbsLtPow10(fVal, 10) THEN i
    ELSE IF i # bestI /\ Vague(Abs(fVal), bestF) THEN Unrep
    ELSE newtonKeep(n, pv, pmt, fv, isBegin, i,
                    IF Lt(Abs(fVal), bestF) THEN i ELSE bestI,
                    IF Lt(Abs(fVal), bestF) THEN Abs(fVal) ELSE bestF,
                    iter, fVal, derivativeI(n, pv, pmt, isBegin, i))

newtonI(n, pv, pmt, fv, isBegin, i, bestI, bestF, iter) ==
    IF iter >= 50 THEN bestI
    ELSE newtonAt(n, pv, pmt, fv, isBegin, i, bestI, bestF, iter,
                  residualI(n, pv, pmt, fv, isBegin, i))

\* bisectionSolveI, "Try to find a sign change": the bracket <<lo, hi, fLo, fHi>>
\* after the test points (probeIAt decides on f(test) = ft).
RECURSIVE probeI(_, _, _, _, _, _, _, _, _, _)
probeIAt(n, pv, pmt, fv, isBegin, lo, hi, fLo, fHi, tests, test, ft) ==
    IF ~(Gt(test, lo) /\ Lt(test, hi))
    THEN probeI(n, pv, pmt, fv, isBegin, lo, hi, fLo, fHi, Tail(tests))
    ELSE IF VagueSign(ft) THEN <<Unrep, Unrep, Unrep, Unrep>>
    ELSE IF NegativeProduct(ft, fLo) THEN <<lo, test, fLo, ft>>
    ELSE IF NegativeProduct(ft, fHi) THEN <<test, hi, ft, fHi>>
    ELSE probeI(n, pv, pmt, fv, isBegin, lo, hi, fLo, fHi, Tail(tests))

probeI(n, pv, pmt, fv, isBegin, lo, hi, fLo, fHi, tests) ==
    IF tests = << >> THEN <<lo, hi, fLo, fHi>>
    ELSE probeIAt(n, pv, pmt, fv, isBegin, lo, hi, fLo, fHi, tests, Head(tests),
                  residualI(n, pv, pmt, fv, isBegin, Head(tests)))

\* bisectionSolveI, the bisection loop (hiKept and the midpoint rule as in
\* bisectN; bisectIAt decides on the midpoint mid with fMid = f(mid)).
RECURSIVE bisectI(_, _, _, _, _, _, _, _, _, _, _)
bisectIAt(n, pv, pmt, fv, isBegin, lo, hi, fLo, iter, maxIter, hiKept, mid, fMid) ==
    IF IsUnrep(lo) \/ IsUnrep(hi) THEN Unrep
    ELSE IF IsUnrep(mid)
         THEN (IF hiKept /\ SurelyPositiveProduct(fLo, residualI(n, pv, pmt, fv, isBegin, hi))
               THEN hi ELSE Unrep)
    ELSE IF iter >= maxIter THEN mid
    ELSE IF IsUnrep(fMid) THEN Unrep
    ELSE IF AbsLtPow10(fMid, 10) THEN mid
    ELSE IF VagueSign(fLo) THEN Unrep
    ELSE IF NegativeProduct(fLo, fMid)
         THEN bisectI(n, pv, pmt, fv, isBegin, lo, mid, fLo, iter + 1, maxIter, FALSE)
         ELSE bisectI(n, pv, pmt, fv, isBegin, mid, hi, fMid, iter + 1, maxIter, hiKept)

bisectIMid(n, pv, pmt, fv, isBegin, lo, hi, fLo, iter, maxIter, hiKept, mid) ==
    bisectIAt(n, pv, pmt, fv, isBegin, lo, hi, fLo, iter, maxIter, hiKept, mid,
              residualI(n, pv, pmt, fv, isBegin, mid))

bisectI(n, pv, pmt, fv, isBegin, lo, hi, fLo, iter, maxIter, hiKept) ==
    bisectIMid(n, pv, pmt, fv, isBegin, lo, hi, fLo, iter, maxIter, hiKept,
               Div(Add(lo, hi), Whole(2)))

\* bisectionSolveI, the bisection of the bracket b = <<lo, hi, fLo, fHi>>.
bisectIFrom(n, pv, pmt, fv, isBegin, hi, maxIter, b) ==
    bisectI(n, pv, pmt, fv, isBegin, b[1], b[2], b[3], 0, maxIter, b[2] = hi)

\* bisectionSolveI, from fLo = f(lo) and fHi = f(hi) on.
bisectionBracket(n, pv, pmt, fv, isBegin, lo, hi, maxIter, fLo, fHi) ==
    IF VagueSign(fLo) \/ VagueSign(fHi) THEN Unrep
    ELSE bisectIFrom(n, pv, pmt, fv, isBegin, hi, maxIter,
                     IF PositiveProduct(fLo, fHi)
                     THEN probeI(n, pv, pmt, fv, isBegin, lo, hi, fLo, fHi,
                                 <<Q(-1, 2), Zero, Q(1, 100), Q(1, 10), Q(1, 2), One, Q(3, 2)>>)
                     ELSE <<lo, hi, fLo, fHi>>)

\* bisectionSolveI(f, lo, hi, maxIter), f the residual of n, pv, pmt, fv, isBegin.
bisectionSolveI(n, pv, pmt, fv, isBegin, lo, hi, maxIter) ==
    bisectionBracket(n, pv, pmt, fv, isBegin, lo, hi, maxIter,
                     residualI(n, pv, pmt, fv, isBegin, lo),
                     residualI(n, pv, pmt, fv, isBegin, hi))

\* solveIY, "If Newton didn't converge well, try bisection", fBest = f(bestI).
bisectionFallback(n, pv, pmt, fv, isBegin, bestI, fBest) ==
    IF IsUnrep(bestI) \/ VagueAbs(fBest, 6) THEN Unrep
    ELSE IF AbsGtPow10(fBest, 6)
         THEN bisectionSolveI(n, pv, pmt, fv, isBegin, Q(-99, 100), Whole(2), 100)
    ELSE bestI

newtonResult(n, pv, pmt, fv, isBegin, bestI) ==
    bisectionFallback(n, pv, pmt, fv, isBegin, bestI, residualI(n, pv, pmt, fv, isBegin, bestI))

\* solveIY from the initial guess i0 = 0.05 on, f0 = f(i0).
newtonFrom(n, pv, pmt, fv, isBegin, i0, f0) ==
    newtonResult(n, pv, pmt, fv, isBegin,
                 IF IsUnrep(f0) THEN Unrep
                 ELSE newtonI(n, pv, pmt, fv, isBegin, i0, i0, Abs(f0), 0))

\* solveIY, up to the bisection fallback: the periodic rate bestI.
solveIYPeriodic(n, pv, pmt, fv, isBegin) ==
    newtonFrom(n, pv, pmt, fv, isBegin, Q(5, 100), residualI(n, pv, pmt, fv, isBegin, Q(5, 100)))

\* solveIY, "Convert periodic rate back to nominal annual rate".
nominalRate(bestI, cy, py) ==
    IF StrictEq(cy, py) THEN Mul(bestI, py)
    ELSE Mul(cy, Sub(Pow(Add(One, bestI), Div(py, cy)), One))

\* solveIY(n, pv, pmt, fv, isBegin, cy, py)
solveIY(n, pv, pmt, fv, isBegin, cy, py) ==
    Mul(nominalRate(solveIYPeriodic(n, pv, pmt, fv, isBegin), cy, py), Whole(100))

(***************************************************************************)
(* Strings: the entry buffer and the texts that Number.prototype.toFixed,  *)
(* toLocaleString, String and parseFloat convert.  A string is the         *)
(* sequence of its characters.                                             *)
(***************************************************************************)

\* The digits of r/d (0 <= r < d) after the decimal point, as the integer
\* floor(r * 10^k / d), and the remainder left, by long division.
RECURSIVE LongDiv(_, _, _, _)
LongDiv(r, d, k, acc) ==
    IF k = 0 THEN <<acc, r>>
    ELSE LongDiv((r * 10) % d, d, k - 1, acc * 10 + (r * 10) \div d)

\* A string outside the strings of the model: the exponential forms, the
\* digits of a number beyond the fractions of the model.
NoText == <<>>

\* 'ERROR', 'NaN', 'Infinity' and the dash shown for an unset value (one
\* character, U+2014).
ErrorText == <<"E", "R", "R", "O", "R">>
NaNText == <<"N", "a", "N">>
InfinityText == <<"I", "n", "f", "i", "n", "i", "t", "y">>
DashText == <<"U+2014">>

DigitChars == <<"0", "1", "2", "3", "4", "5", "6", "7", "8", "9">>

\* The digit that the character c writes.
digitOf(c) == CHOOSE k \in 0..9 : DigitChars[k + 1] = c

isDigit(c) == c \in {DigitChars[k] : k \in 1..10}

\* The decimal digits of the natural number n.
RECURSIVE digitsOf(_)
digitsOf(n) ==
    IF n < 10 THEN <<DigitChars[n + 1]>>
    ELSE Append(digitsOf(n \div 10), DigitChars[(n % 10) + 1])

\* The p decimal digits of f < 10^p, leading zeros included.
RECURSIVE fraction(_, _)
fraction(f, p) ==
    IF p = 0 THEN <<>>
    ELSE Append(fraction(f \div 10, p - 1), DigitChars[(f % 10) + 1])

\* The number of decimals that n/d needs, d a divisor of 10^6.
placesOf(d) == CHOOSE p \in 0..6 : (10 ^ p) % d = 0 /\ \A r \in 0..(p - 1) : (10 ^ r) % d # 0

\* The integer digits s with the thousands separators of the en-US locale.
RECURSIVE grouped(_)
grouped(s) ==
    IF Len(s) <= 3 THEN s
    ELSE grouped(SubSeq(s, 1, Len(s) - 3)) \o <<",">> \o SubSeq(s, Len(s) - 2, Len(s))

\* The decimal numeral of n/d (n >= 0, d a divisor of 10^6, p = placesOf(d))
\* after its integer digits whole.
decimalsOf(n, d, p) ==
    IF p = 0 THEN <<>> ELSE <<".">> \o fraction((n % d) * ((10 ^ p) \div d), p)

\* String(value), for a number: the shortest decimal numeral that reads back as
\* the double, which is the numeral of the fraction when the double is the
\* nearest to it.
String(value) ==
    IF value.k = "nan" THEN NaNText
    ELSE IF value.k = "pinf" THEN InfinityText
    ELSE IF value.k = "ninf" THEN <<"-">> \o InfinityText
    ELSE IF value.k # "num" \/ value.u > 0 \/ 1000000 % value.d # 0 THEN NoText
    ELSE (IF value.n < 0 THEN <<"-">> ELSE <<>>)
         \o digitsOf(AbsInt(value.n) \div value.d)
         \o decimalsOf(AbsInt(value.n), value.d, placesOf(value.d))

\* string.replace(/,/g, '') for ch = ",": the string without its commas.
replace(text, ch) == SelectSeq(text, LAMBDA c : c # ch)

\* The number of leading digits of s from position k on.
RECURSIVE digitRun(_, _)
digitRun(s, k) == IF k <= Len(s) /\ isDigit(s[k]) THEN 1 + digitRun(s, k + 1) ELSE 0

\* The natural number that the m digits of s from position k on write.
RECURSIVE natOf(_, _, _)
natOf(s, k, m) == IF m = 0 THEN 0 ELSE natOf(s, k, m - 1) * 10 + digitOf(s[k + m - 1])

\* The most digits of a numeral that parseFloat reads within the model.
MaxParsed == 6

\* parseFloat of a string whose numeral starts at position k with a integer
\* digits, then (b > 0) a point and b decimals; negative when neg: the
\* double nearest to the numeral.  The negative zero counts as zero: its readers take "parseFloat(...) || 0", and
\* toLocaleString writes its sign from the text (see formatNumber).
parsedFrom(s, neg, k, a, b) ==
    IF a = 0 /\ b = 0
    THEN IF SubSeq(s, k, Len(s)) = InfinityText THEN (IF neg THEN NegInf ELSE PosInf)
         ELSE NaN
    ELSE IF a > MaxParsed \/ b > MaxParsed THEN Unrep
    ELSE IF b = 0 THEN Whole((IF neg THEN -1 ELSE 1) * natOf(s, k, a))
    ELSE FracSum(Whole((IF neg THEN -1 ELSE 1) * natOf(s, k, a)),
                 Q((IF neg THEN -1 ELSE 1) * natOf(s, k + a + 1, b), 10 ^ b))

\* parseFloat from position k on, a integer digits found.
parsedAfter(s, neg, k, a) ==
    parsedFrom(s, neg, k, a,
               IF k + a <= Len(s) /\ s[k + a] = "." THEN digitRun(s, k + a + 1) ELSE 0)

\* parseFloat(string)
parseFloat(s) ==
    IF s # <<>> /\ s[1] = "-" THEN parsedAfter(s, TRUE, 2, digitRun(s, 2))
    ELSE parsedAfter(s, FALSE, 1, digitRun(s, 1))

\* num.toFixed(6) as a number, for the finite num with integer part q and the
\* six decimals and remainder ld of |num|: the nearest multiple of 10^-6.  A
\* fraction midway between two multiples stands for a double that is midway
\* only when it is binary (denominator 128, rounded away from zero) and the
\* double is the fraction; otherwise the double lies to one side that the
\* fractions do not tell.  Any other fraction is farther from the midway point
\* than its double is from it.
toFixed6(num, q, ld) ==
    IF q > MaxNum \div 1000000 THEN Unrep
    ELSE IF 2 * ld[2] = num.d /\ (num.d # 128 \/ num.u > 0) THEN Unrep
    ELSE Q((IF num.n < 0 THEN -1 ELSE 1)
             * (q * 1000000 + ld[1] + (IF 2 * ld[2] >= num.d THEN 1 ELSE 0)),
           1000000)

\* formatNumber: parseFloat(num.toFixed(6)), for a finite number num.
rounded(num) ==
    IF 1000000 % num.d = 0 THEN [num EXCEPT !.u = 0]
    ELSE IF num.d > IntLim \div 20 THEN Unrep
    ELSE toFixed6(num, AbsInt(num.n) \div num.d, LongDiv(AbsInt(num.n) % num.d, num.d, 6, 0))

\* formatNumber: rounded.toLocaleString('en-US', ...), for the finite num
\* rounded to r; a negative num rounded to zero is written '-0'.
localeString(num, r) ==
    IF IsUnrep(r) THEN NoText
    ELSE (IF num.n < 0 THEN <<"-">> ELSE <<>>)
         \o grouped(digitsOf(AbsInt(r.n) \div r.d))
         \o decimalsOf(AbsInt(r.n), r.d, placesOf(r.d))

\* formatNumber(num): the dash for null, 'ERROR' for a non-finite number, else
\* the number rounded to 6 decimals.  The exponential forms, for |num| < 1e-10
\* (the residue of a cancellation, unless it is 0) and |num| >= 1e12, lie
\* outside the strings of the model; a boolean ends in a TypeError (toFixed is
\* not a function).
formatNumber(num) ==
    IF IsNull(num) THEN DashText
    ELSE IF num.k \in {"nan", "pinf", "ninf"} THEN ErrorText
    ELSE IF num.k # "num" \/ IsTiny(num) THEN NoText
    ELSE localeString(num, rounded(num))

(***************************************************************************)
(* Amortization, NPV and IRR.                                              *)
(***************************************************************************)

\* calculateAmort, the loop over the periods period..p2.  amortPeriod is the
\* end of one pass ("Accumulate for the requested range"), amortBegin and
\* amortEnd the two branches of the pass.
RECURSIVE amortLoop(_, _, _, _, _, _, _, _, _)
\* The end of a pass that accumulates every period from 1 on: calculateAmort
\* without its "if (period >= p1)".
amortPeriodFromStart(pmt, i, isBegin, p1, p2, period, balance, totalPrincipal, totalInterest, principalPayment, interestPayment) ==
    amortLoop(pmt, i, isBegin, p1, p2, period + 1, balance,
              Add(totalPrincipal, principalPayment), Add(totalInterest, interestPayment))

amortPeriod(pmt, i, isBegin, p1, p2, period, balance, totalPrincipal, totalInterest, principalPayment, interestPayment) ==
    amortLoop(pmt, i, isBegin, p1, p2, period + 1, balance,
              IF period >= p1 THEN Add(totalPrincipal, principalPayment) ELSE totalPrincipal,
              IF period >= p1 THEN Add(totalInterest, interestPayment) ELSE totalInterest)

\* "payment first, then interest", balance being the balance after the payment.
amortBegin(pmt, i, isBegin, p1, p2, period, balance, totalPrincipal, totalInterest, interestPayment) ==
    amortPeriod(pmt, i, isBegin, p1, p2, period, Add(balance, interestPayment),
                totalPrincipal, totalInterest, Neg(pmt), interestPayment)

\* An END pass that counts the whole payment as principal, as the BEGIN pass
\* does: calculateAmort with principalPayment = -pmt in both branches.
amortEndWholePayment(pmt, i, isBegin, p1, p2, period, balance, totalPrincipal, totalInterest, interestPayment) ==
    amortPeriod(pmt, i, isBegin, p1, p2, period, Add(balance, Add(interestPayment, pmt)),
                totalPrincipal, totalInterest, Neg(pmt), interestPayment)

\* "interest first, then payment"
amortEnd(pmt, i, isBegin, p1, p2, period, balance, totalPrincipal, totalInterest, interestPayment) ==
    amortPeriod(pmt, i, isBegin, p1, p2, period, Add(balance, Add(interestPayment, pmt)),
                totalPrincipal, totalInterest, Sub(Neg(pmt), interestPayment),
                interestPayment)

amortLoop(pmt, i, isBegin, p1, p2, period, balance, totalPrincipal, totalInterest) ==
    IF period > p2
    THEN [principal |-> totalPrincipal, interest |-> totalInterest, balance |-> balance]
    ELSE IF Truthy(isBegin)
    THEN amortBegin(pmt, i, isBegin, p1, p2, period, Add(balance, Neg(pmt)),
                    totalPrincipal, totalInterest, Mul(Add(balance, Neg(pmt)), i))
    ELSE amortEnd(pmt, i, isBegin, p1, p2, period, balance,
                  totalPrincipal, totalInterest, Mul(balance, i))

\* calculateAmort for the registers n, iy, pv, pmt, the settings cy, py, isBegin
\* and the period range p1..p2: the amortResults it stores.
calculateAmort(n, iy, pv, pmt, cy, py, p1, p2, isBegin) ==
    amortLoop(pmt, getPeriodicRate(iy, cy, py), isBegin, p1, p2, 1, pv, Zero, Zero)

\* npvFunc(r) = sum of CF[t] / (1+r)^t for t = from..length-1, added to acc
\* (cashFlows[t] is cf[t + 1]).
RECURSIVE npvSum(_, _, _, _)
npvSum(cf, r, t, acc) ==
    IF t >= Len(cf) THEN acc
    ELSE npvSum(cf, r, t + 1, Add(acc, Div(cf[t + 1], Pow(Add(One, r), Whole(t)))))

npvFunc(cf, r) == npvSum(cf, r, 0, Zero)

\* npvDerivative(r) = - sum of t * CF[t] / (1+r)^(t+1) for t >= 1.
RECURSIVE npvDerivSum(_, _, _, _)
npvDerivSum(cf, r, t, acc) ==
    IF t >= Len(cf) THEN acc
    ELSE npvDerivSum(cf, r, t + 1,
             Sub(acc, Div(Mul(Whole(t), cf[t + 1]), Pow(Add(One, r), Whole(t + 1)))))

npvDerivative(cf, r) == npvDerivSum(cf, r, 1, Zero)

\* calculateIRR, "Keep in reasonable bounds".
boundedIRR(r, newR) ==
    IF Vague(newR, Whole(10)) THEN Unrep
    ELSE IF Gt(newR, Whole(10)) THEN Div(Add(r, Whole(10)), Whole(2))
    ELSE newR

raisedIRR(r, newR) ==
    IF Vague(newR, Q(-99, 100)) THEN Unrep
    ELSE boundedIRR(r, IF Le(newR, Q(-99, 100)) THEN Div(Sub(r, Q(99, 100)), Whole(2)) ELSE newR)

\* calculateIRR, the Newton-Raphson loop: the bestR it leaves.  newtonIRRAt is
\* one iteration from the tests on npv = npvFunc(r) on, newtonIRRMove the step
\* to newR.
RECURSIVE newtonIRR(_, _, _, _, _)
newtonIRRMove(cf, r, bestR, bestNPV, iter, newR) ==
    IF IsUnrep(newR) THEN Unrep
    ELSE IF Apart(newR, r) THEN newtonIRR(cf, newR, bestR, bestNPV, iter + 1)
    ELSE IF VagueAbs(Sub(newR, r), 10) THEN Unrep
    ELSE IF AbsLtPow10(Sub(newR, r), 10) THEN newR
    ELSE newtonIRR(cf, newR, bestR, bestNPV, iter + 1)

newtonIRRKeep(cf, r, bestR, bestNPV, iter, npv, deriv) ==
    IF VagueAbs(deriv, 15) THEN Unrep
    ELSE IF AbsLtPow10(deriv, 15) THEN bestR
    ELSE newtonIRRMove(cf, r, bestR, bestNPV, iter, raisedIRR(r, Sub(r, Div(npv, deriv))))

\* "Math.abs(npv) < bestNPV": at r = bestR both are Math.abs(npvFunc(bestR)),
\* and either outcome leaves bestR and bestNPV as they are.
newtonIRRAt(cf, r, bestR, bestNPV, iter, npv) ==
    IF IsUnrep(npv) \/ IsUnrep(bestNPV) THEN Unrep
    ELSE IF AbsLtPow10(npv, 10) THEN r
    ELSE IF r # bestR /\ Vague(Abs(npv), bestNPV) THEN Unrep
    ELSE newtonIRRKeep(cf, r,
                       IF Lt(Abs(npv), bestNPV) THEN r ELSE bestR,
                       IF Lt(Abs(npv), bestNPV) THEN Abs(npv) ELSE bestNPV,
                       iter, npv, npvDerivative(cf, r))

newtonIRR(cf, r, bestR, bestNPV, iter) ==
    IF iter >= 100 THEN bestR
    ELSE newtonIRRAt(cf, r, bestR, bestNPV, iter, npvFunc(cf, r))

\* bisectionIRR, "Adjust bounds if needed": the bracket <<lo, hi, fLo, fHi>>
\* after the test points (probeIRRAt decides on f(test) = ft).
RECURSIVE probeIRR(_, _, _, _, _, _)
probeIRRAt(cf, lo, hi, fLo, fHi, tests, test, ft) ==
    IF VagueSign(ft) THEN <<Unrep, Unrep, Unrep, Unrep>>
    ELSE IF NegativeProduct(ft, fLo) THEN <<lo, test, fLo, ft>>
    ELSE IF NegativeProduct(ft, fHi) THEN <<test, hi, ft, fHi>>
    ELSE probeIRR(cf, lo, hi, fLo, fHi, Tail(tests))

probeIRR(cf, lo, hi, fLo, fHi, tests) ==
    IF tests = << >> THEN <<lo, hi, fLo, fHi>>
    ELSE probeIRRAt(cf, lo, hi, fLo, fHi, tests, Head(tests), npvFunc(cf, Head(tests)))

\* bisectionIRR, the bisection loop (hiKept and the midpoint rule as in bisectN;
\* bisectIRRAt decides on the midpoint mid with fMid = f(mid)).
RECURSIVE bisectIRR(_, _, _, _, _, _, _)
bisectIRRAt(cf, lo, hi, fLo, iter, maxIter, hiKept, mid, fMid) ==
    IF IsUnrep(lo) \/ IsUnrep(hi) THEN Unrep
    ELSE IF IsUnrep(mid)
         THEN (IF hiKept /\ ~VagueSign(fLo) /\ ~VagueSign(npvFunc(cf, hi))
                  /\ PositiveProduct(fLo, npvFunc(cf, hi))
               THEN hi ELSE Unrep)
    ELSE IF iter >= maxIter THEN mid
    ELSE IF IsUnrep(fMid) THEN Unrep
    ELSE IF AbsLtPow10(fMid, 10) THEN mid
    ELSE IF VagueSign(fLo) THEN Unrep
    ELSE IF NegativeProduct(fLo, fMid)
         THEN bisectIRR(cf, lo, mid, fLo, iter + 1, maxIter, FALSE)
         ELSE bisectIRR(cf, mid, hi, fMid, iter + 1, maxIter, hiKept)

bisectIRRMid(cf, lo, hi, fLo, iter, maxIter, hiKept, mid) ==
    bisectIRRAt(cf, lo, hi, fLo, iter, maxIter, hiKept, mid, npvFunc(cf, mid))

bisectIRR(cf, lo, hi, fLo, iter, maxIter, hiKept) ==
    bisectIRRMid(cf, lo, hi, fLo, iter, maxIter, hiKept, Div(Add(lo, hi), Whole(2)))

\* bisectionIRR, the bisection of the bracket b = <<lo, hi, fLo, fHi>>.
bisectIRRFrom(cf, hi, maxIter, b) ==
    bisectIRR(cf, b[1], b[2], b[3], 0, maxIter, b[2] = hi)

\* bisectionIRR, from fLo = f(lo) and fHi = f(hi) on.
bracketIRR(cf, lo, hi, maxIter, fLo, fHi) ==
    IF VagueSign(fLo) \/ VagueSign(fHi) THEN Unrep
    ELSE bisectIRRFrom(cf, hi, maxIter,
                       IF PositiveProduct(fLo, fHi)
                       THEN probeIRR(cf, lo, hi, fLo, fHi,
                                     <<Q(-1, 2), Zero, Q(1, 100), Q(1, 10), Q(1, 2), One>>)
                       ELSE <<lo, hi, fLo, fHi>>)

\* bisectionIRR(f, lo, hi, maxIter), f the npvFunc of the cash flows cf.
bisectionIRR(cf, lo, hi, maxIter) ==
    bracketIRR(cf, lo, hi, maxIter, npvFunc(cf, lo), npvFunc(cf, hi))

\* calculateIRR, "Fallback to bisection if Newton didn't converge well", for
\* fBest = npvFunc(bestR).
fallbackIRR(cf, bestR, fBest) ==
    IF IsUnrep(bestR) \/ VagueAbs(fBest, 6) THEN Unrep
    ELSE IF AbsGtPow10(fBest, 6) THEN bisectionIRR(cf, Q(-99, 100), Whole(2), 100)
    ELSE bestR

newtonIRRResult(cf, bestR) == fallbackIRR(cf, bestR, npvFunc(cf, bestR))

\* calculateIRR from the initial guess r0 = 0.1 on, f0 = npvFunc(r0).
newtonIRRFrom(cf, r0, f0) ==
    newtonIRRResult(cf, IF IsUnrep(f0) THEN Unrep ELSE newtonIRR(cf, r0, r0, Abs(f0), 0))

\* calculateIRR, from the initial guess to the bisection fallback: bestR.
irrPeriodic(cf) == newtonIRRFrom(cf, Q(1, 10), npvFunc(cf, Q(1, 10)))

(***************************************************************************)
(* The calculator state: the fields of the `state` object, and the class   *)
(* of the message area.  The entry buffer is the string of its characters. *)
(* Not held: memory, lastClearTime and cfDiscountRate, which no handler    *)
(* reads (reset alone writes memory and cfDiscountRate).  solves counts    *)
(* the results stored since the last reset.  bench holds the arguments and *)
(* results of the solver and amortization functions when they are applied *)
(* on their own, outside the calculator (as the repository's test suite    *)
(* applies them).                                                          *)
(***************************************************************************)
VARIABLES N, IY, PV, PMT, FV, py, cy, BGN, entry, isNewEntry,
          lastComputed, lastComputedVar, rclMode, computeArmed, mode,
          cashFlows, cfIndex, amortP1, amortP2, amortResults, msgType, solves,
          bench, selectedVar, operator, operand

vars == <<N, IY, PV, PMT, FV, py, cy, BGN, entry, isNewEntry,
          lastComputed, lastComputedVar, rclMode, computeArmed, mode,
          cashFlows, cfIndex, amortP1, amortP2, amortResults, msgType, solves, bench,
          selectedVar, operator, operand>>

tvmRegs == <<N, IY, PV, PMT, FV>>
arith == <<operator, operand>>
settings == <<py, cy, BGN>>
cfState == <<cashFlows, cfIndex>>
amortState == <<amortP1, amortP2, amortResults>>

\* The TVM variable keys, in the order of tvmVars.
tvmVars == <<"N", "IY", "PV", "PMT", "FV">>
TvmVarSet == {"N", "IY", "PV", "PMT", "FV"}

\* No variable (lastComputedVar or selectedVar is null) and no operator.
NoVar == "null"
NoOp == "null"

\* The numerals keyed into the entry buffer, the frequencies among them, and
\* the longest cash-flow series.
Typed == {Zero, One}
TypedCF == {Whole(-100), One}
TypedAmort == {Zero, One, Whole(2)}
MaxCF == 2
MaxPeriod == 2

\* The results one session stores (solves counts them since the last reset).
MaxSolves == 2

\* state[varName]
Reg(varName) ==
    CASE varName = "N" -> N
      [] varName = "IY" -> IY
      [] varName = "PV" -> PV
      [] varName = "PMT" -> PMT
      [] varName = "FV" -> FV

\* state[varName] = value, the other registers unchanged.
SetReg(varName, value) ==
    /\ N' = IF varName = "N" THEN value ELSE N
    /\ IY' = IF varName = "IY" THEN value ELSE IY
    /\ PV' = IF varName = "PV" THEN value ELSE PV
    /\ PMT' = IF varName = "PMT" THEN value ELSE PMT
    /\ FV' = IF varName = "FV" THEN value ELSE FV

Bool(b) == IF b THEN True ELSE False

\* The value that "x || 0" gives for the number x.
orZero(x) == IF IsUnrep(x) \/ IsTiny(x) \/ Truthy(x) THEN x ELSE Zero

\* getEntryValue(): parseFloat(state.entry) || 0
getEntryValue == orZero(parseFloat(entry))

\* hasEntryValue(): the user has typed a number.
hasEntryValue == ~isNewEntry /\ entry # <<"-">>

\* The bench while the calculator runs: no function applied.
Idle ==
    [fn |-> "idle", n |-> 0, i |-> Zero, pv |-> Zero, pmt |-> Zero, fv |-> Zero,
     isBegin |-> FALSE, p1 |-> 0, p2 |-> 0, mid |-> Null, out |-> Null,
     amort |-> [principal |-> Null, interest |-> Null, balance |-> Null]]

\* The `state` literal.
constructed ==
    /\ N = Null /\ IY = Null /\ PV = Null /\ PMT = Null /\ FV = Null
    /\ py = Zero /\ cy = Zero /\ BGN = FALSE
    /\ entry = <<"0">> /\ isNewEntry = TRUE
    /\ selectedVar = NoVar /\ operator = NoOp /\ operand = Null
    /\ lastComputed = Null /\ lastComputedVar = NoVar
    /\ rclMode = FALSE /\ computeArmed = FALSE
    /\ mode = "tvm"
    /\ cashFlows = <<Zero>> /\ cfIndex = 0
    /\ amortP1 = 1 /\ amortP2 = 1 /\ amortResults = Null
    /\ msgType = ""
    /\ solves = 0

\* The state after construction.
Init == constructed /\ bench = Idle

\* compute(), the switch on solveFor, for i = getPeriodicRate(iy, cy, py).
solverOf(solveFor, i) ==
    CASE solveFor = "FV" -> solveFV(N, i, PV, PMT, Bool(BGN))
      [] solveFor = "PV" -> solvePV(N, i, PMT, FV, Bool(BGN))
      [] solveFor = "PMT" -> solvePMT(N, i, PV, FV, Bool(BGN))
      [] solveFor = "N" -> solveN(i, PV, PMT, FV, Bool(BGN))
      [] solveFor = "IY" -> solveIY(N, PV, PMT, FV, Bool(BGN), cy, py)

\* The solver that compute() runs for the unset variable solveFor.
solveByCompute(solveFor) == solverOf(solveFor, getPeriodicRate(IY, cy, py))

\* computeVariable(varName), the switch on varName, for the values n, pv, pmt,
\* fv it reads and i = getPeriodicRate(iy, cy, py): the I/Y call is
\* solveIY(n, pv, pmt, fv, cy, py, isBegin).
variableSolverOf(varName, n, i, pv, pmt, fv) ==
    CASE varName = "FV" -> solveFV(n, i, pv, pmt, Bool(BGN))
      [] varName = "PV" -> solvePV(n, i, pmt, fv, Bool(BGN))
      [] varName = "PMT" -> solvePMT(n, i, pv, fv, Bool(BGN))
      [] varName = "N" -> solveN(i, pv, pmt, fv, Bool(BGN))
      [] varName = "IY" -> solveIY(n, pv, pmt, fv, cy, py, Bool(BGN))

\* The solver that computeVariable(varName) runs, the target register holding
\* null meanwhile.
solveByVariable(varName) ==
    variableSolverOf(varName,
                     IF varName = "N" THEN Null ELSE N,
                     getPeriodicRate(IF varName = "IY" THEN Null ELSE IY, cy, py),
                     IF varName = "PV" THEN Null ELSE PV,
                     IF varName = "PMT" THEN Null ELSE PMT,
                     IF varName = "FV" THEN Null ELSE FV)

(***************************************************************************)
(* Entry and register keys.                                                *)
(***************************************************************************)

\* state.entry.replace(/[^0-9]/g, '').length
digitCount(s) == Len(SelectSeq(s, isDigit))

\* appendDigit(digit), a digit key or the decimal point.
appendDigit(digit) ==
    /\ msgType' = "" /\ rclMode' = FALSE /\ computeArmed' = FALSE
    /\ IF isNewEntry
       THEN /\ entry' = IF digit = "." THEN <<"0", ".">> ELSE <<digit>>
            /\ isNewEntry' = FALSE
       ELSE IF (digit = "." /\ \E k \in 1..Len(entry) : entry[k] = ".")
               \/ digitCount(entry) >= 12
       THEN UNCHANGED <<entry, isNewEntry>>
       ELSE /\ entry' = IF entry = <<"-">> /\ digit = "." THEN <<"-", "0", ".">>
                        ELSE Append(entry, digit)
            /\ UNCHANGED isNewEntry
    /\ UNCHANGED <<tvmRegs, settings, lastComputed, lastComputedVar,
                   mode, cfState, amortState, solves, bench, selectedVar, arith>>

\* negateEntry(), the +/- key; it leaves computeArmed as it is.
negateEntry ==
    /\ msgType' = "" /\ rclMode' = FALSE
    /\ IF isNewEntry /\ entry = <<"0">>
       THEN entry' = <<"-">> /\ isNewEntry' = FALSE
       ELSE IF entry = <<"-">>
       THEN entry' = <<"0">> /\ isNewEntry' = TRUE
       ELSE /\ entry' = IF entry # <<>> /\ entry[1] = "-" THEN Tail(entry)
                        ELSE <<"-">> \o entry
            /\ UNCHANGED isNewEntry
    /\ UNCHANGED <<tvmRegs, settings, lastComputed, lastComputedVar, computeArmed,
                   mode, cfState, amortState, solves, bench, selectedVar, arith>>

\* deleteLastChar(), the DEL key outside cash-flow mode and Backspace; it
\* leaves the message as it is.
deleteLastChar ==
    /\ computeArmed' = FALSE /\ rclMode' = FALSE
    /\ IF isNewEntry /\ entry = <<"0">>
       THEN UNCHANGED <<entry, isNewEntry>>
       ELSE IF Len(entry) <= 1 \/ (Len(entry) = 2 /\ entry[1] = "-")
       THEN entry' = <<"0">> /\ isNewEntry' = TRUE
       ELSE entry' = SubSeq(entry, 1, Len(entry) - 1) /\ UNCHANGED isNewEntry
    /\ UNCHANGED <<tvmRegs, settings, lastComputed, lastComputedVar, msgType,
                   mode, cfState, amortState, solves, bench, selectedVar, arith>>

\* clearEntry(), the C/CE key.
clearEntry ==
    /\ computeArmed' = FALSE /\ rclMode' = FALSE
    /\ entry' = <<"0">> /\ isNewEntry' = TRUE /\ msgType' = ""
    /\ operator' = NoOp /\ operand' = Null
    /\ UNCHANGED <<tvmRegs, settings, lastComputed, lastComputedVar,
                   mode, cfState, amortState, solves, bench, selectedVar>>

\* setOperator(op), the keys + - x /.
setOperator(op) ==
    /\ ~IsUnrep(getEntryValue)
    /\ operand' = getEntryValue /\ operator' = op
    /\ isNewEntry' = TRUE
    /\ UNCHANGED <<tvmRegs, settings, entry, lastComputed, lastComputedVar,
                   rclMode, computeArmed, mode, cfState, amortState, msgType,
                   solves, bench, selectedVar>>

\* calculate(): the switch on state.operator, for a = state.operand and
\* b = getEntryValue(), the divisor b not 0.
resultOf(op, a, b) ==
    CASE op = "add" -> Add(a, b)
      [] op = "subtract" -> Sub(a, b)
      [] op = "multiply" -> Mul(a, b)
      [] op = "divide" -> Div(a, b)

\* calculate(), the = key.
calculate ==
    IF operator = NoOp \/ IsNull(operand)
    THEN UNCHANGED vars
    ELSE IF operator = "divide" /\ getEntryValue = Zero
    THEN /\ msgType' = "error"
         /\ UNCHANGED <<tvmRegs, settings, entry, isNewEntry, lastComputed,
                        lastComputedVar, rclMode, computeArmed, mode, cfState,
                        amortState, solves, bench, selectedVar, arith>>
    ELSE /\ String(resultOf(operator, operand, getEntryValue)) # NoText
         /\ entry' = String(resultOf(operator, operand, getEntryValue))
         /\ operator' = NoOp /\ operand' = Null
         /\ isNewEntry' = TRUE
         /\ UNCHANGED <<tvmRegs, settings, lastComputed, lastComputedVar,
                        rclMode, computeArmed, mode, cfState, amortState, msgType,
                        solves, bench, selectedVar>>

\* storeVariable(varName)
storeVariable(varName) ==
    /\ rclMode' = FALSE /\ computeArmed' = FALSE
    /\ ~IsUnrep(getEntryValue)
    /\ SetReg(varName, getEntryValue)
    /\ selectedVar' = varName
    /\ lastComputedVar' = IF lastComputedVar = varName THEN NoVar ELSE lastComputedVar
    /\ msgType' = "success"
    /\ entry' = <<"0">> /\ isNewEntry' = TRUE
    /\ UNCHANGED <<settings, lastComputed, mode, cfState, amortState, solves, bench, arith>>

\* clearRegister(varName)
clearRegister(varName) ==
    /\ rclMode' = FALSE /\ computeArmed' = FALSE
    /\ SetReg(varName, Null)
    /\ selectedVar' = varName
    /\ lastComputedVar' = IF lastComputedVar = varName THEN NoVar ELSE lastComputedVar
    /\ msgType' = "info"
    /\ entry' = <<"0">> /\ isNewEntry' = TRUE
    /\ UNCHANGED <<settings, lastComputed, mode, cfState, amortState, solves, bench, arith>>

\* recallVariable(varName)
recallVariable(varName) ==
    /\ IF ~IsNull(Reg(varName))
       THEN /\ String(Reg(varName)) # NoText
            /\ entry' = String(Reg(varName))
            /\ isNewEntry' = TRUE /\ msgType' = "success"
       ELSE msgType' = "error" /\ UNCHANGED <<entry, isNewEntry>>
    /\ rclMode' = FALSE
    /\ UNCHANGED <<tvmRegs, settings, lastComputed, lastComputedVar,
                   computeArmed, mode, cfState, amortState, solves, bench, selectedVar, arith>>

\* computeVariable from "if (!isFinite(result))" on: a non-finite result restores
\* the register and reports 'No solution found', a finite one is stored.
computeVariableResult(varName, result) ==
    /\ solves < MaxSolves
    /\ ~IsUnrep(result)
    /\ IF ~IsFinite(result)
       THEN /\ msgType' = "error"
            /\ UNCHANGED <<tvmRegs, entry, isNewEntry, lastComputed, lastComputedVar,
                           solves, bench, selectedVar, arith>>
       ELSE /\ formatNumber(result) # NoText
            /\ solves' = solves + 1 /\ UNCHANGED <<bench, arith>>
            /\ SetReg(varName, result)
            /\ selectedVar' = varName
            /\ lastComputed' = result
            /\ lastComputedVar' = varName
            /\ entry' = replace(formatNumber(result), ",")
            /\ isNewEntry' = TRUE
            /\ msgType' = "success"

\* computeVariable(varName); it leaves rclMode alone, which its caller settles.
computeVariable(varName) ==
    /\ computeArmed' = FALSE
    /\ IF Le(py, Zero) \/ Le(cy, Zero)
       THEN /\ msgType' = "error"
            /\ UNCHANGED <<tvmRegs, entry, isNewEntry, lastComputed,
                           lastComputedVar, solves, bench, selectedVar, arith>>
       ELSE computeVariableResult(varName, solveByVariable(varName))
    /\ UNCHANGED <<settings, mode, cfState, amortState>>

\* compute(): tvmVars.filter(v => state[v] === null)
blankVars == {v \in TvmVarSet : IsNull(Reg(v))}

\* compute(): blankVars[0], when there is one.
solveFor == CHOOSE v \in blankVars : TRUE

\* compute() without its "if (!isFinite(result) || isNaN(result))": every result
\* is stored.
storeUnchecked(varName, result) ==
    /\ solves < MaxSolves
    /\ ~IsUnrep(result)
    /\ formatNumber(result) # NoText
    /\ solves' = solves + 1 /\ UNCHANGED <<bench, arith>>
    /\ SetReg(varName, result)
    /\ selectedVar' = varName
    /\ lastComputed' = result
    /\ lastComputedVar' = varName
    /\ entry' = replace(formatNumber(result), ",")
    /\ isNewEntry' = TRUE
    /\ msgType' = "success"
    /\ UNCHANGED <<settings, computeArmed, mode, cfState, amortState>>

\* compute() whose store leaves lastComputedVar as it was: computeResult
\* without its "state.lastComputedVar = solveFor".
computeResultUnmarked(varName, result) ==
    /\ solves < MaxSolves
    /\ ~IsUnrep(result)
    /\ IF ~IsFinite(result)
       THEN /\ msgType' = "error"
            /\ UNCHANGED <<tvmRegs, entry, isNewEntry, lastComputed, lastComputedVar,
                           solves, bench, selectedVar, arith>>
       ELSE /\ formatNumber(result) # NoText
            /\ solves' = solves + 1 /\ UNCHANGED <<bench, arith>>
            /\ SetReg(varName, result)
            /\ selectedVar' = varName
            /\ lastComputed' = result
            /\ UNCHANGED lastComputedVar
            /\ entry' = replace(formatNumber(result), ",")
            /\ isNewEntry' = TRUE
            /\ msgType' = "success"
    /\ UNCHANGED <<settings, computeArmed, mode, cfState, amortState>>

\* compute() from "if (!isFinite(result) || isNaN(result))" on.
computeResult(varName, result) ==
    /\ solves < MaxSolves
    /\ ~IsUnrep(result)
    /\ IF ~IsFinite(result)
       THEN /\ msgType' = "error"
            /\ UNCHANGED <<tvmRegs, entry, isNewEntry, lastComputed, lastComputedVar,
                           solves, bench, selectedVar, arith>>
       ELSE /\ formatNumber(result) # NoText
            /\ solves' = solves + 1 /\ UNCHANGED <<bench, arith>>
            /\ SetReg(varName, result)
            /\ selectedVar' = varName
            /\ lastComputed' = result
            /\ lastComputedVar' = varName
            /\ entry' = replace(formatNumber(result), ",")
            /\ isNewEntry' = TRUE
            /\ msgType' = "success"
    /\ UNCHANGED <<settings, computeArmed, mode, cfState, amortState>>

\* compute() without its "else if (blankVars.length > 1)": with any register
\* unset it solves for the first unset one.
computeAnyBlank ==
    /\ rclMode' = FALSE
    /\ IF Le(py, Zero) \/ Le(cy, Zero)
       THEN /\ msgType' = "error"
            /\ UNCHANGED <<tvmRegs, settings, entry, isNewEntry,
                           lastComputed, lastComputedVar, computeArmed, mode,
                           cfState, amortState, solves, bench, selectedVar, arith>>
       ELSE IF blankVars = {}
       THEN IF lastComputedVar # NoVar
            THEN computeVariable(lastComputedVar)
            ELSE /\ computeArmed' = TRUE
                 /\ msgType' = "info"
                 /\ UNCHANGED <<tvmRegs, settings, entry, isNewEntry,
                                lastComputed, lastComputedVar, mode, cfState,
                                amortState, solves, bench, selectedVar, arith>>
       ELSE computeResult(solveFor, solveByCompute(solveFor))

\* compute(), the CPT key.
compute ==
    /\ rclMode' = FALSE
    /\ IF Le(py, Zero) \/ Le(cy, Zero)
       THEN /\ msgType' = "error"
            /\ UNCHANGED <<tvmRegs, settings, entry, isNewEntry,
                           lastComputed, lastComputedVar, computeArmed, mode,
                           cfState, amortState, solves, bench, selectedVar, arith>>
       ELSE IF blankVars = {}
       THEN IF lastComputedVar # NoVar
            THEN computeVariable(lastComputedVar)
            ELSE /\ computeArmed' = TRUE
                 /\ msgType' = "info"
                 /\ UNCHANGED <<tvmRegs, settings, entry, isNewEntry,
                                lastComputed, lastComputedVar, mode, cfState,
                                amortState, solves, bench, selectedVar, arith>>
       ELSE IF Cardinality(blankVars) > 1
       THEN /\ msgType' = "error"
            /\ UNCHANGED <<tvmRegs, settings, entry, isNewEntry,
                           lastComputed, lastComputedVar, computeArmed, mode,
                           cfState, amortState, solves, bench, selectedVar, arith>>
       ELSE computeResult(solveFor, solveByCompute(solveFor))

\* vars.indexOf(state.selectedVar), for vars = ['N', 'IY', 'PV', 'PMT', 'FV'].
indexOf(varName) ==
    IF varName \in TvmVarSet THEN (CHOOSE k \in 1..5 : tvmVars[k] = varName) - 1 ELSE -1

\* selectVariable(varName): the row is highlighted, nothing is stored.
selectVariable(varName) ==
    /\ selectedVar' = varName
    /\ UNCHANGED <<tvmRegs, settings, entry, isNewEntry, lastComputed,
                   lastComputedVar, rclMode, computeArmed, mode, cfState,
                   amortState, msgType, solves, bench, arith>>

\* navigateUp() and navigateDown(), the arrows in TVM mode.
navigateUp ==
    IF indexOf(selectedVar) > 0 THEN selectVariable(tvmVars[indexOf(selectedVar)])
    ELSE selectVariable(tvmVars[5])

navigateDown ==
    IF indexOf(selectedVar) < 4 /\ indexOf(selectedVar) >= 0
    THEN selectVariable(tvmVars[indexOf(selectedVar) + 2])
    ELSE selectVariable(tvmVars[1])

(***************************************************************************)
(* Settings, reset, recall and navigation keys.                            *)
(***************************************************************************)

\* setPY(value) / setCY(value) succeed: an integer in 1..999.
validFrequency(value) == IsInteger(value) /\ value.n >= 1 /\ value.n <= 999

\* handleSettingKey(varName), varName "PY" or "CY" (xP/Y is the P/Y key).
handleSettingKey(varName) ==
    /\ rclMode' = FALSE /\ computeArmed' = FALSE
    /\ ~IsUnrep(getEntryValue)
    /\ IF hasEntryValue
       THEN IF validFrequency(getEntryValue)
            THEN /\ py' = IF varName = "PY" THEN getEntryValue ELSE py
                 /\ cy' = IF varName = "CY" THEN getEntryValue ELSE cy
                 /\ msgType' = "success"
                 /\ entry' = <<"0">> /\ isNewEntry' = TRUE
            ELSE msgType' = "error" /\ UNCHANGED <<py, cy, entry, isNewEntry>>
       ELSE msgType' = "info" /\ UNCHANGED <<py, cy, entry, isNewEntry>>
    /\ UNCHANGED <<tvmRegs, BGN, lastComputed, lastComputedVar, mode,
                   cfState, amortState, solves, bench, selectedVar, arith>>

\* toggleBGN()
toggleBGN ==
    /\ BGN' = ~BGN /\ msgType' = "info"
    /\ UNCHANGED <<tvmRegs, py, cy, entry, isNewEntry, lastComputed,
                   lastComputedVar, rclMode, computeArmed, mode, cfState, amortState, solves, bench, selectedVar, arith>>

\* RESET that leaves the selected cash flow where it is: reset without its
\* "state.cfIndex = 0".
resetKeepingIndex ==
    /\ N' = Null /\ IY' = Null /\ PV' = Null /\ PMT' = Null /\ FV' = Null
    /\ cy' = Zero /\ py' = Zero /\ BGN' = FALSE
    /\ entry' = <<"0">> /\ isNewEntry' = TRUE
    /\ lastComputed' = Null /\ lastComputedVar' = NoVar
    /\ rclMode' = FALSE
    /\ cashFlows' = <<Zero>> /\ UNCHANGED cfIndex
    /\ amortP1' = 1 /\ amortP2' = 1 /\ amortResults' = Null
    /\ mode' = "tvm" /\ msgType' = "info"
    /\ selectedVar' = NoVar /\ operator' = NoOp /\ operand' = Null
    /\ solves' = 0 /\ UNCHANGED bench
    /\ UNCHANGED computeArmed

\* RESET that leaves P/Y and C/Y as they are: reset without its
\* "state.cy = 0; state.py = 0".
resetKeepingFrequencies ==
    /\ N' = Null /\ IY' = Null /\ PV' = Null /\ PMT' = Null /\ FV' = Null
    /\ UNCHANGED <<cy, py>> /\ BGN' = FALSE
    /\ entry' = <<"0">> /\ isNewEntry' = TRUE
    /\ lastComputed' = Null /\ lastComputedVar' = NoVar
    /\ rclMode' = FALSE
    /\ cashFlows' = <<Zero>> /\ cfIndex' = 0
    /\ amortP1' = 1 /\ amortP2' = 1 /\ amortResults' = Null
    /\ mode' = "tvm" /\ msgType' = "info"
    /\ selectedVar' = NoVar /\ operator' = NoOp /\ operand' = Null
    /\ solves' = 0 /\ UNCHANGED bench
    /\ UNCHANGED computeArmed

\* reset()
reset ==
    /\ N' = Null /\ IY' = Null /\ PV' = Null /\ PMT' = Null /\ FV' = Null
    /\ cy' = Zero /\ py' = Zero /\ BGN' = FALSE
    /\ entry' = <<"0">> /\ isNewEntry' = TRUE
    /\ lastComputed' = Null /\ lastComputedVar' = NoVar
    /\ rclMode' = FALSE
    /\ cashFlows' = <<Zero>> /\ cfIndex' = 0
    /\ amortP1' = 1 /\ amortP2' = 1 /\ amortResults' = Null
    /\ mode' = "tvm" /\ msgType' = "info"
    /\ selectedVar' = NoVar /\ operator' = NoOp /\ operand' = Null
    /\ solves' = 0 /\ UNCHANGED bench
    /\ UNCHANGED computeArmed

\* toggleRCL()
toggleRCL ==
    /\ rclMode' = ~rclMode
    /\ msgType' = IF ~rclMode THEN "info" ELSE ""
    /\ UNCHANGED <<tvmRegs, settings, entry, isNewEntry, lastComputed,
                   lastComputedVar, computeArmed, mode, cfState, amortState, solves, bench, selectedVar, arith>>

\* showMessage, the timer that clears the message after the delay.
messageTimeout ==
    /\ msgType # ""
    /\ msgType' = ""
    /\ UNCHANGED <<tvmRegs, settings, entry, isNewEntry, lastComputed,
                   lastComputedVar, rclMode, computeArmed, mode, cfState, amortState, solves, bench, selectedVar, arith>>

(***************************************************************************)
(* Cash-flow keys.                                                         *)
(***************************************************************************)

\* enterCFMode(), the CF key.
enterCFMode ==
    /\ IF mode = "cf"
       THEN mode' = "tvm" /\ UNCHANGED cfIndex
       ELSE mode' = "cf" /\ cfIndex' = 0
    /\ msgType' = "info"
    /\ UNCHANGED <<tvmRegs, settings, entry, isNewEntry, lastComputed,
                   lastComputedVar, rclMode, computeArmed, cashFlows, amortState, solves, bench, selectedVar, arith>>

\* Navigation that drops the last entry when UP leaves it: a navigateCF that
\* edits the series on the way up as it extends it on the way down.
navigateCFTrimming(direction) ==
    /\ mode = "cf"
    /\ IF direction = "up" /\ cfIndex > 0
       THEN /\ cfIndex' = cfIndex - 1
            /\ cashFlows' = IF cfIndex = Len(cashFlows) - 1
                            THEN SubSeq(cashFlows, 1, Len(cashFlows) - 1)
                            ELSE cashFlows
       ELSE IF direction = "down" /\ cfIndex < Len(cashFlows) - 1
       THEN cfIndex' = cfIndex + 1 /\ UNCHANGED cashFlows
       ELSE IF direction = "down"
       THEN /\ Len(cashFlows) < MaxCF
            /\ cashFlows' = Append(cashFlows, Zero)
            /\ cfIndex' = Len(cashFlows)
       ELSE UNCHANGED <<cashFlows, cfIndex>>
    /\ entry' = String(cashFlows'[cfIndex' + 1])
    /\ isNewEntry' = TRUE
    /\ UNCHANGED <<tvmRegs, settings, lastComputed, lastComputedVar,
                   rclMode, computeArmed, mode, amortState, msgType, solves, bench, selectedVar, arith>>

\* navigateCF(direction), the UP and DOWN keys in cash-flow mode.
navigateCF(direction) ==
    /\ mode = "cf"
    /\ IF direction = "up" /\ cfIndex > 0
       THEN cfIndex' = cfIndex - 1 /\ UNCHANGED cashFlows
       ELSE IF direction = "down" /\ cfIndex < Len(cashFlows) - 1
       THEN cfIndex' = cfIndex + 1 /\ UNCHANGED cashFlows
       ELSE IF direction = "down"
       THEN /\ Len(cashFlows) < MaxCF
            /\ cashFlows' = Append(cashFlows, Zero)
            /\ cfIndex' = Len(cashFlows)
       ELSE UNCHANGED <<cashFlows, cfIndex>>
    /\ entry' = String(cashFlows'[cfIndex' + 1])
    /\ isNewEntry' = TRUE
    /\ UNCHANGED <<tvmRegs, settings, lastComputed, lastComputedVar,
                   rclMode, computeArmed, mode, amortState, msgType, solves, bench, selectedVar, arith>>

\* storeCashFlow(), ENTER in cash-flow mode.
storeCashFlow ==
    /\ mode = "cf"
    /\ ~IsUnrep(getEntryValue)
    /\ cashFlows' = [cashFlows EXCEPT ![cfIndex + 1] = getEntryValue]
    /\ msgType' = "success"
    /\ isNewEntry' = TRUE
    /\ UNCHANGED <<tvmRegs, settings, entry, lastComputed, lastComputedVar,
                   rclMode, computeArmed, mode, cfIndex, amortState, solves, bench, selectedVar, arith>>

\* The sequence s without its element at the 0-based index idx.
removeAt(s, idx) == [k \in 1..(Len(s) - 1) |-> IF k <= idx THEN s[k] ELSE s[k + 1]]

\* The sequence s with v inserted at the 0-based index idx.
insertAt(s, idx, v) ==
    [k \in 1..(Len(s) + 1) |-> IF k <= idx THEN s[k] ELSE IF k = idx + 1 THEN v ELSE s[k - 1]]

\* DEL that removes the current entry of a series of two or more whatever its
\* index: deleteCashFlow without its "state.cfIndex > 0".
deleteAnyCashFlow ==
    /\ mode = "cf"
    /\ IF Len(cashFlows) <= 1
       THEN /\ cashFlows' = [cashFlows EXCEPT ![1] = Zero]
            /\ msgType' = "info" /\ UNCHANGED cfIndex
       ELSE /\ cashFlows' = removeAt(cashFlows, cfIndex)
            /\ cfIndex' = IF cfIndex >= Len(cashFlows) - 1 THEN Len(cashFlows) - 2
                          ELSE cfIndex
            /\ msgType' = "info"
    /\ entry' = String(cashFlows'[cfIndex' + 1])
    /\ isNewEntry' = TRUE
    /\ UNCHANGED <<tvmRegs, settings, lastComputed, lastComputedVar,
                   rclMode, computeArmed, mode, amortState, solves, bench, selectedVar, arith>>

\* deleteCashFlow(), DEL in cash-flow mode.
deleteCashFlow ==
    /\ mode = "cf"
    /\ IF Len(cashFlows) <= 1
       THEN /\ cashFlows' = [cashFlows EXCEPT ![1] = Zero]
            /\ msgType' = "info" /\ UNCHANGED cfIndex
       ELSE IF cfIndex > 0
       THEN /\ cashFlows' = removeAt(cashFlows, cfIndex)
            /\ cfIndex' = IF cfIndex >= Len(cashFlows) - 1 THEN Len(cashFlows) - 2
                          ELSE cfIndex
            /\ msgType' = "info"
       ELSE msgType' = "error" /\ UNCHANGED <<cashFlows, cfIndex>>
    /\ entry' = String(cashFlows'[cfIndex' + 1])
    /\ isNewEntry' = TRUE
    /\ UNCHANGED <<tvmRegs, settings, lastComputed, lastComputedVar,
                   rclMode, computeArmed, mode, amortState, solves, bench, selectedVar, arith>>

\* handleKeyClick, INS in cash-flow mode.
insertCashFlow ==
    /\ mode = "cf"
    /\ Len(cashFlows) < MaxCF
    /\ cashFlows' = insertAt(cashFlows, cfIndex + 1, Zero)
    /\ cfIndex' = cfIndex + 1
    /\ entry' = <<"0">> /\ isNewEntry' = TRUE
    /\ msgType' = "info"
    /\ UNCHANGED <<tvmRegs, settings, lastComputed, lastComputedVar,
                   rclMode, computeArmed, mode, amortState, solves, bench, selectedVar, arith>>

\* calculateNPV: "If currently entering a number, use that as the rate".
typedRate == ~isNewEntry /\ entry # <<"0">>

\* calculateNPV: the discount rate, I/Y or else the entry.
discountRate == IF IsNull(IY) THEN getEntryValue ELSE IY

\* calculateNPV from the sum npv on, for the discount rate `rate`.
storeNPV(rate, npv) ==
    /\ solves < MaxSolves
    /\ ~IsUnrep(rate)
    /\ ~IsUnrep(npv) /\ formatNumber(npv) # NoText
    /\ solves' = solves + 1 /\ UNCHANGED <<bench, selectedVar, arith>>
    /\ IY' = rate
    /\ lastComputed' = npv
    /\ entry' = replace(formatNumber(npv), ",")
    /\ isNewEntry' = TRUE
    /\ msgType' = "success"
    /\ mode' = "tvm"
    /\ UNCHANGED <<N, PV, PMT, FV, settings, lastComputedVar,
                   rclMode, computeArmed, cfState, amortState>>

\* calculateNPV(), the NPV key.
calculateNPV ==
    IF Len(cashFlows) < 2 \/ Le(py, Zero) \/ (IsNull(IY) /\ ~typedRate)
    THEN /\ msgType' = "error"
         /\ UNCHANGED <<tvmRegs, settings, entry, isNewEntry,
                        lastComputed, lastComputedVar, rclMode, computeArmed, mode,
                        cfState, amortState, solves, bench, selectedVar, arith>>
    ELSE storeNPV(discountRate,
                  npvFunc(cashFlows, Div(Div(discountRate, Whole(100)), py)))

\* calculateIRR: "Check that we have at least one sign change".
hasPositive == \E t \in 1..Len(cashFlows) : Gt(cashFlows[t], Zero)
hasNegative == \E t \in 1..Len(cashFlows) : Lt(cashFlows[t], Zero)

\* calculateIRR's store that marks I/Y as the computed variable, as compute()
\* does for its result: "state.lastComputedVar = 'IY'" added.
storeIRRAsComputed(irrAnnual) ==
    /\ solves < MaxSolves
    /\ ~IsUnrep(irrAnnual) /\ formatNumber(irrAnnual) # NoText
    /\ solves' = solves + 1 /\ UNCHANGED <<bench, selectedVar, arith>>
    /\ IY' = irrAnnual
    /\ lastComputed' = irrAnnual
    /\ lastComputedVar' = "IY"
    /\ entry' = replace(formatNumber(irrAnnual), ",")
    /\ isNewEntry' = TRUE
    /\ msgType' = "success"
    /\ mode' = "tvm"
    /\ UNCHANGED <<N, PV, PMT, FV, settings,
                   rclMode, computeArmed, cfState, amortState>>

\* calculateIRR from irrAnnual = bestR * state.py * 100 on.
storeIRR(irrAnnual) ==
    /\ solves < MaxSolves
    /\ ~IsUnrep(irrAnnual) /\ formatNumber(irrAnnual) # NoText
    /\ solves' = solves + 1 /\ UNCHANGED <<bench, selectedVar, arith>>
    /\ IY' = irrAnnual
    /\ lastComputed' = irrAnnual
    /\ entry' = replace(formatNumber(irrAnnual), ",")
    /\ isNewEntry' = TRUE
    /\ msgType' = "success"
    /\ mode' = "tvm"
    /\ UNCHANGED <<N, PV, PMT, FV, settings, lastComputedVar,
                   rclMode, computeArmed, cfState, amortState>>

\* The IRR key without its sign check: the search runs on any series of two
\* or more entries once P/Y is set.
calculateIRRAnySigns ==
    IF Len(cashFlows) < 2 \/ Le(py, Zero)
    THEN /\ msgType' = "error"
         /\ UNCHANGED <<tvmRegs, settings, entry, isNewEntry,
                        lastComputed, lastComputedVar, rclMode, computeArmed, mode,
                        cfState, amortState, solves, bench, selectedVar, arith>>
    ELSE storeIRR(Mul(Mul(irrPeriodic(cashFlows), py), Whole(100)))

\* calculateIRR(), the IRR key.
calculateIRR ==
    IF Len(cashFlows) < 2 \/ Le(py, Zero) \/ ~hasPositive \/ ~hasNegative
    THEN /\ msgType' = "error"
         /\ UNCHANGED <<tvmRegs, settings, entry, isNewEntry,
                        lastComputed, lastComputedVar, rclMode, computeArmed, mode,
                        cfState, amortState, solves, bench, selectedVar, arith>>
    ELSE storeIRR(Mul(Mul(irrPeriodic(cashFlows), py), Whole(100)))

(***************************************************************************)
(* Amortization keys.                                                      *)
(***************************************************************************)

\* calculateAmort() returns early: a register or a frequency is unset.
amortUnset ==
    IsNull(N) \/ IsNull(IY) \/ IsNull(PV) \/ IsNull(PMT) \/ Le(py, Zero) \/ Le(cy, Zero)

\* calculateAmort() for the range p1..p2, on the state's registers.
amortOf(p1, p2) == calculateAmort(N, IY, PV, PMT, cy, py, p1, p2, Bool(BGN))

\* The amortization result r lies within the numbers of the model.
amortRepresented(r) ==
    /\ ~IsUnrep(r.principal) /\ ~IsUnrep(r.interest) /\ ~IsUnrep(r.balance)
    /\ formatNumber(r.balance) # NoText

\* calculateAmort(), its end: the result r is stored and its balance shown;
\* isNewEntry is set by the caller, with its own writes.
showAmort(r) ==
    /\ amortRepresented(r)
    /\ amortResults' = r
    /\ entry' = replace(formatNumber(r.balance), ",")

\* Math.floor(state.N), null being 0; not known for a rounded whole N.
maxN == Floor(N)

\* AMORT without its "if (state.py <= 0 || state.cy <= 0)": the mode is entered
\* whenever N, I/Y, PV and PMT are set.
enterAmortModeUnchecked ==
    IF IsNull(N) \/ IsNull(IY) \/ IsNull(PV) \/ IsNull(PMT)
    THEN /\ msgType' = "error"
         /\ UNCHANGED <<tvmRegs, settings, entry, isNewEntry, lastComputed,
                        lastComputedVar, rclMode, computeArmed, mode, cfState,
                        amortState, solves, bench, selectedVar, arith>>
    ELSE IF mode = "amort"
    THEN /\ mode' = "tvm" /\ msgType' = "info"
         /\ UNCHANGED <<tvmRegs, settings, entry, isNewEntry, lastComputed,
                        lastComputedVar, rclMode, computeArmed, cfState, amortState,
                        solves, bench, selectedVar, arith>>
    ELSE /\ amortP1' = 1 /\ amortP2' = 1
         /\ amortResults' = Null /\ UNCHANGED entry
         /\ isNewEntry' = TRUE
         /\ mode' = "amort" /\ msgType' = "info"
         /\ UNCHANGED <<tvmRegs, settings, lastComputed, lastComputedVar,
                        rclMode, computeArmed, cfState, solves, bench, selectedVar, arith>>

\* enterAmortMode(), the AMORT key.
enterAmortMode ==
    IF IsNull(N) \/ IsNull(IY) \/ IsNull(PV) \/ IsNull(PMT) \/ Le(py, Zero) \/ Le(cy, Zero)
    THEN /\ msgType' = "error"
         /\ UNCHANGED <<tvmRegs, settings, entry, isNewEntry, lastComputed,
                        lastComputedVar, rclMode, computeArmed, mode, cfState,
                        amortState, solves, bench, selectedVar, arith>>
    ELSE IF mode = "amort"
    THEN /\ mode' = "tvm" /\ msgType' = "info"
         /\ UNCHANGED <<tvmRegs, settings, entry, isNewEntry, lastComputed,
                        lastComputedVar, rclMode, computeArmed, cfState, amortState,
                        solves, bench, selectedVar, arith>>
    ELSE /\ amortP1' = 1 /\ amortP2' = 1
         /\ showAmort(amortOf(1, 1))
         /\ isNewEntry' = TRUE
         /\ mode' = "amort" /\ msgType' = "info"
         /\ UNCHANGED <<tvmRegs, settings, lastComputed, lastComputedVar,
                        rclMode, computeArmed, cfState, solves, bench, selectedVar, arith>>

\* navigateAmort: the period that both ends of the range move to.
navigatedPeriod(direction) ==
    IF direction = "up" /\ amortP1 > 1 THEN amortP1 - 1
    ELSE IF direction = "down" /\ Lt(Whole(amortP2), maxN) THEN amortP2 + 1
    ELSE 0

\* navigateAmort from calculateAmort() on, the range being p..q.
navigateTo(p, q) ==
    /\ q <= MaxPeriod
    /\ amortP1' = p /\ amortP2' = q
    /\ IF amortUnset
       THEN amortResults' = Null /\ UNCHANGED <<entry, isNewEntry>>
       ELSE showAmort(amortOf(p, q)) /\ isNewEntry' = TRUE
    /\ UNCHANGED <<tvmRegs, settings, lastComputed, lastComputedVar,
                   rclMode, computeArmed, mode, cfState, msgType, solves, bench, selectedVar, arith>>

\* navigateAmort whose DOWN moves only the end of the range: without its
\* "state.amortP1 = state.amortP2 + 1" the range grows by a period.
navigateAmortExtending(direction) ==
    /\ mode = "amort"
    /\ ~(direction = "down" /\ IsUnrep(maxN))
    /\ navigateTo(IF navigatedPeriod(direction) = 0 \/ direction = "down" THEN amortP1
                  ELSE navigatedPeriod(direction),
                  IF navigatedPeriod(direction) = 0 THEN amortP2
                  ELSE IF direction = "down" THEN amortP2 + 1
                  ELSE navigatedPeriod(direction))

\* navigateAmort(direction), the UP and DOWN keys in amortization mode.
navigateAmort(direction) ==
    /\ mode = "amort"
    /\ ~(direction = "down" /\ IsUnrep(maxN))
    /\ navigateTo(IF navigatedPeriod(direction) = 0 THEN amortP1
                  ELSE navigatedPeriod(direction),
                  IF navigatedPeriod(direction) = 0 THEN amortP2
                  ELSE navigatedPeriod(direction))

\* setAmortPeriod from the test of value = Math.floor(getEntryValue()) on.
setPeriodTo(value) ==
    /\ ~IsUnrep(value) /\ ~(Ge(value, One) /\ IsUnrep(maxN))
    /\ IF Ge(value, One) /\ Le(value, maxN)
       THEN /\ value.n <= MaxPeriod
            /\ amortP1' = value.n /\ amortP2' = value.n
            /\ IF amortUnset
               THEN amortResults' = Null /\ UNCHANGED entry
               ELSE showAmort(amortOf(value.n, value.n))
            /\ msgType' = "info"
       ELSE msgType' = "error" /\ UNCHANGED <<amortState, entry>>
    /\ isNewEntry' = TRUE
    /\ UNCHANGED <<tvmRegs, settings, lastComputed, lastComputedVar,
                   rclMode, computeArmed, mode, cfState, solves, bench, selectedVar, arith>>

\* setAmortPeriod(), ENTER in amortization mode.
setAmortPeriod == mode = "amort" /\ setPeriodTo(Floor(getEntryValue))

(***************************************************************************)
(* The calculator at work.  handleKeyClick is the listener of the keypad,  *)
(* handleKeyboard that of the keyboard and handleTVMRowClick that of the   *)
(* TVM table; a session works on one worksheet: the TVM worksheet (Spec),  *)
(* the cash-flow worksheet (SpecCF, SpecRate), the amortization worksheet  *)
(* (SpecAmort), the set-up of the frequencies (SpecSetup), the solve for N *)
(* (SpecPeriods) or the entry and its arithmetic (SpecEntry).  The keys of *)
(* a session, its keydown events, the numerals it types and the numerals   *)
(* it stores in each place are the inputs of a specification; every key    *)
(* and event of a session may come in every state, and the message timer   *)
(* may run out in any.                                                     *)
(***************************************************************************)

\* The data-op values of the keys + - x /.
OpKeys == {"add", "subtract", "multiply", "divide"}

\* handleKeyClick, case 'ENTER'.
enterKey ==
    IF mode = "cf" THEN storeCashFlow
    ELSE IF mode = "amort" THEN setAmortPeriod
    ELSE IF selectedVar # NoVar /\ hasEntryValue THEN storeVariable(selectedVar)
    ELSE UNCHANGED vars

\* handleKeyClick, cases 'UP' and 'DOWN', and handleKeyboard, "Arrow keys":
\* the arrow moves in the worksheet of the mode.
navigate(direction) ==
    IF mode = "cf" THEN navigateCF(direction)
    ELSE IF mode = "amort" THEN navigateAmort(direction)
    ELSE IF direction = "up" THEN navigateUp
    ELSE navigateDown

\* handleKeyClick(e), for the key that e.target is: a digit (data-digit), a
\* variable (data-var), an operator (data-op) or an action (data-action).
handleKeyClick(key) ==
    IF isDigit(key) THEN appendDigit(key)
    ELSE IF key \in {"CY", "PY"} THEN handleSettingKey(key)
    ELSE IF key \in TvmVarSet
    THEN IF computeArmed THEN computeVariable(key) /\ UNCHANGED rclMode
         ELSE IF rclMode THEN recallVariable(key)
         ELSE IF hasEntryValue THEN storeVariable(key)
         ELSE clearRegister(key)
    ELSE IF key \in OpKeys THEN setOperator(key)
    ELSE CASE key = "decimal" -> appendDigit(".")
           [] key = "negate" -> negateEntry
           [] key = "DEL" -> IF mode = "cf" THEN deleteCashFlow ELSE deleteLastChar
           [] key = "CCE" -> clearEntry
           [] key = "RESET" -> reset
           [] key = "CPT" -> compute
           [] key = "RCL" -> toggleRCL
           [] key = "ENTER" -> enterKey
           [] key \in {"UP", "DOWN"} -> navigate(IF key = "UP" THEN "up" ELSE "down")
           [] key = "BGN" -> toggleBGN
           [] key = "xPY" -> handleSettingKey("PY")
           [] key = "equals" -> calculate
           [] key = "CF" -> enterCFMode
           [] key = "NPV" -> calculateNPV
           [] key = "IRR" -> calculateIRR
           [] key = "AMORT" -> enterAmortMode
           [] key = "INS" -> IF mode = "cf" THEN insertCashFlow ELSE UNCHANGED vars

\* handleKeyboard, Escape outside TVM mode: setMode('tvm') and the message
\* 'Returned to TVM mode'.
returnToTVM ==
    /\ mode' = "tvm" /\ msgType' = "info"
    /\ UNCHANGED <<tvmRegs, settings, entry, isNewEntry, lastComputed,
                   lastComputedVar, rclMode, computeArmed, cfState, amortState,
                   solves, bench, selectedVar, arith>>

\* String.prototype.toLowerCase on the e.key of a keydown: a letter, or the
\* name of a key.
toLowerCase(key) ==
    CASE key = "N" -> "n" [] key = "I" -> "i" [] key = "P" -> "p"
      [] key = "M" -> "m" [] key = "F" -> "f" [] key = "C" -> "c"
      [] key = "ArrowUp" -> "arrowup" [] key = "ArrowDown" -> "arrowdown"
      [] OTHER -> key

\* handleKeyboard, "Quick keys for TVM (with Ctrl)", for key = e.key in lower
\* case; selected: window.getSelection() holds text, which Ctrl+C copies.
quickKey(key, selected) ==
    CASE key = "n" -> selectVariable("N")
      [] key = "i" -> selectVariable("IY")
      [] key = "p" -> selectVariable("PV")
      [] key = "m" -> selectVariable("PMT")
      [] key = "f" -> selectVariable("FV")
      [] key = "c" -> IF selected THEN UNCHANGED vars ELSE compute
      [] OTHER -> UNCHANGED vars

\* handleKeyboard(e), the listener of keydown, for tagName = e.target.tagName,
\* key = e.key, ctrlKey = e.ctrlKey || e.metaKey.  Enter clicks the ENTER key
\* of the keypad, which handleKeyClick takes to its case 'ENTER'; an arrow
\* navigates and goes on to the quick keys, none of which it is.
handleKeyboard(tagName, key, ctrlKey, selected) ==
    IF tagName \in {"INPUT", "TEXTAREA"} THEN UNCHANGED vars
    ELSE IF isDigit(key) THEN appendDigit(key)
    ELSE IF key = "." THEN appendDigit(".")
    ELSE IF key = "Backspace" THEN deleteLastChar
    ELSE IF key = "Enter" THEN enterKey
    ELSE IF key = "Escape" THEN (IF mode # "tvm" THEN returnToTVM ELSE clearEntry)
    ELSE IF key = "+" THEN setOperator("add")
    ELSE IF key = "-" THEN setOperator("subtract")
    ELSE IF key = "*" THEN setOperator("multiply")
    ELSE IF key = "/" THEN setOperator("divide")
    ELSE IF key = "=" THEN calculate
    ELSE IF key \in {"ArrowUp", "ArrowDown"}
    THEN navigate(IF key = "ArrowUp" THEN "up" ELSE "down")
    ELSE IF ctrlKey THEN quickKey(toLowerCase(key), selected)
    ELSE UNCHANGED vars

\* handleTVMRowClick(e), the listener of the TVM table, for varName the
\* data-var of the row clicked (NoVar: the click is on no row).
handleTVMRowClick(varName) ==
    IF varName = NoVar THEN UNCHANGED vars ELSE selectVariable(varName)

\* The place that the key stores the entry in, if it does: a register, a
\* setting, or the selected cash flow ("CF").
storedBy(key) ==
    IF key \in TvmVarSet /\ ~computeArmed /\ ~rclMode /\ hasEntryValue THEN key
    ELSE IF key \in {"PY", "CY"} /\ hasEntryValue THEN key
    ELSE IF key = "xPY" /\ hasEntryValue THEN "PY"
    ELSE IF key = "ENTER" /\ mode = "cf" THEN "CF"
    ELSE IF key = "ENTER" /\ mode = "tvm" /\ hasEntryValue THEN selectedVar
    ELSE IF key = "NPV" /\ Len(cashFlows) >= 2 /\ Gt(py, Zero) /\ IsNull(IY) /\ typedRate
         THEN "IY"
    ELSE NoVar

Places == TvmVarSet \cup {"PY", "CY", "CF"}

\* The user stores in each place a numeral of Stored only.
storesNumeral(key, Stored) ==
    IF storedBy(key) = NoVar THEN TRUE
    ELSE getEntryValue \in Stored[storedBy(key)]

\* The user types the numerals of Texts only: the entry under way is the
\* beginning of one of them.
typesNumeral(Texts) ==
    IF isNewEntry' THEN TRUE
    ELSE \E t \in Texts : \E k \in 1..Len(t) : entry' = SubSeq(t, 1, k)

\* A key of a session that types the numerals of Texts and stores the
\* numerals of Stored.
pressed(key, Texts, Stored) ==
    storesNumeral(key, Stored) /\ handleKeyClick(key) /\ typesNumeral(Texts)

\* A keydown on the page, outside any input field, with no text selected;
\* and with Ctrl held.
Key(key) == [tagName |-> "BODY", key |-> key, ctrlKey |-> FALSE, selected |-> FALSE]
Ctrl(key) == [tagName |-> "BODY", key |-> key, ctrlKey |-> TRUE, selected |-> FALSE]

\* A keydown of a session that types the numerals of Texts and stores the
\* numerals of Stored.
keyed(e, Texts, Stored) ==
    /\ (e.tagName = "BODY" /\ e.key = "Enter") => storesNumeral("ENTER", Stored)
    /\ handleKeyboard(e.tagName, e.key, e.ctrlKey, e.selected)
    /\ typesNumeral(Texts)

\* The numerals as they are typed.
textsOf(Numerals) == {String(v) : v \in Numerals}

\* The numerals of Stored, and in the other places none.
Only(Stored) == [place \in Places |-> IF place \in DOMAIN Stored THEN Stored[place] ELSE {}]

\* The keys of the TVM worksheet and the numerals stored in its registers.
StoredTVM ==
    Only([place \in TvmVarSet \cup {"PY", "CY"} |->
            CASE place = "N" -> {Zero}
              [] place = "IY" -> {Zero}
              [] place = "PV" -> {One}
              [] place = "PMT" -> {Zero}
              [] place = "FV" -> {Zero, One}
              [] place \in {"PY", "CY"} -> {Zero, One}])

KeysTVM ==
    {"0", "1", "negate", "DEL", "CCE", "N", "IY", "PV", "PMT", "FV", "PY", "CY",
     "CPT", "BGN", "RESET"}

EventsTVM == {Key("Escape"), Key("Backspace"), Ctrl("c")}

TextsTVM == textsOf(Typed)

Next ==
    \/ \E key \in KeysTVM : pressed(key, TextsTVM, StoredTVM)
    \/ \E e \in EventsTVM : keyed(e, TextsTVM, StoredTVM)
    \/ messageTimeout

Spec == Init /\ [][Next]_vars

\* The keys of the cash-flow worksheet: the discount rate, P/Y, the series,
\* NPV, IRR and RESET.  The rate stored is -100% a period, the flows are -1
\* and 1 (and the 0 that DOWN, INS and DEL leave).
KeysCF ==
    {"0", "1", "negate", "IY", "PY", "CY", "CF", "UP", "DOWN", "ENTER", "DEL", "INS",
     "NPV", "IRR", "RESET"}

StoredCF ==
    Only([place \in {"IY", "PY", "CY", "CF"} |->
            CASE place = "IY" -> {Whole(-100)}
              [] place \in {"PY", "CY"} -> {One}
              [] place = "CF" -> {Whole(-1), One}])

\* Escape leaves the worksheet, Backspace edits the entry where DEL deletes
\* the cash flow.
EventsCF == {Key("Escape"), Key("Backspace"), Key("ArrowDown")}

TextsCF == textsOf(TypedCF)

NextCF ==
    \/ \E key \in KeysCF : pressed(key, TextsCF, StoredCF)
    \/ \E e \in EventsCF : keyed(e, TextsCF, StoredCF)
    \/ messageTimeout

SpecCF == Init /\ [][NextCF]_vars

\* The keys of the cash-flow worksheet that lead to an NPV or an IRR: P/Y, the
\* series CF0, CF1 keyed in with INS and ENTER, the I/Y key, NPV and IRR, and
\* the keys that edit, clear and recall.  The numerals include the series
\* -100, 110, whose rate of return is the first guess of calculateIRR, 10% a
\* period.
TypedRate == {Whole(-100), One, Whole(110)}

KeysRate ==
    {"0", "1", "decimal", "negate", "DEL", "CCE", "RCL", "PY", "IY", "CF", "INS", "ENTER",
     "NPV", "IRR", "RESET"}

\* The numerals as they are typed, and the zeros typed as 00, -0 and 0.0.
TextsRate == textsOf(TypedRate) \cup {<<"0", "0">>, <<"-", "0">>, <<"0", ".", "0">>}

StoredRate ==
    Only([place \in {"IY", "PY", "CF"} |->
            CASE place = "IY" -> {Zero, One}
              [] place = "PY" -> {One}
              [] place = "CF" -> {Whole(-100), Whole(110)}])

EventsRate == {Key("Escape"), Key("Backspace")}

NextRate ==
    \/ \E key \in KeysRate : pressed(key, TextsRate, StoredRate)
    \/ \E e \in EventsRate : keyed(e, TextsRate, StoredRate)
    \/ messageTimeout

SpecRate == Init /\ [][NextRate]_vars

\* The keys that lead to a CPT for N: P/Y and C/Y, the numerals stored in I/Y,
\* PV, PMT and FV, and CPT.  The numerals include a rate below -100% a period.
TypedPeriods == {Whole(-300), Zero, One}

KeysPeriods == {"0", "1", "3", "negate", "IY", "PV", "PMT", "FV", "PY", "CY", "CPT"}

TextsPeriods == textsOf(TypedPeriods)

StoredPeriods ==
    Only([place \in {"IY", "PV", "PMT", "FV", "PY", "CY"} |->
            CASE place = "IY" -> TypedPeriods
              [] place \in {"PV", "FV"} -> {Whole(-300), Zero}
              [] place = "PMT" -> {Zero, One}
              [] place \in {"PY", "CY"} -> {One}])

EventsPeriods == {Ctrl("c")}

NextPeriods ==
    \/ \E key \in KeysPeriods : pressed(key, TextsPeriods, StoredPeriods)
    \/ \E e \in EventsPeriods : keyed(e, TextsPeriods, StoredPeriods)
    \/ messageTimeout

SpecPeriods == Init /\ [][NextPeriods]_vars

\* The keys that ask for P/Y and C/Y (CPT, the register keys after CPT, AMORT)
\* and the keys that set up the registers and the settings before them.
TypedSetup == {One}

KeysSetup == {"1", "N", "IY", "PV", "PMT", "FV", "PY", "CY", "CPT", "AMORT", "RESET"}

TextsSetup == textsOf(TypedSetup)

StoredSetup ==
    Only([place \in TvmVarSet \cup {"PY", "CY"} |->
            IF place \in {"PY", "CY"} THEN TypedSetup ELSE {One}])

EventsSetup == {Ctrl("c"), Key("Escape")}

NextSetup ==
    \/ \E key \in KeysSetup : pressed(key, TextsSetup, StoredSetup)
    \/ \E e \in EventsSetup : keyed(e, TextsSetup, StoredSetup)
    \/ messageTimeout

SpecSetup == Init /\ [][NextSetup]_vars

\* The keys of the amortization worksheet: the registers (FV is cleared only),
\* the settings, the period keys, C/CE and RESET.
KeysAmort ==
    {"0", "1", "2", "N", "IY", "PV", "PMT", "FV", "PY", "CY", "BGN", "AMORT", "UP",
     "DOWN", "ENTER", "CCE", "RCL", "RESET"}

TextsAmort == textsOf(TypedAmort)

StoredAmort ==
    Only([place \in {"N", "IY", "PV", "PMT", "PY", "CY"} |->
            CASE place = "N" -> {Zero, Whole(2)}
              [] place = "IY" -> {Zero}
              [] place \in {"PV", "PMT", "PY", "CY"} -> {One}])

\* Escape leaves the worksheet whatever the registers hold.
EventsAmort == {Key("Escape"), Key("ArrowUp"), Key("ArrowDown"), Key("Enter")}

NextAmort ==
    \/ \E key \in KeysAmort : pressed(key, TextsAmort, StoredAmort)
    \/ \E e \in EventsAmort : keyed(e, TextsAmort, StoredAmort)
    \/ messageTimeout

SpecAmort == Init /\ [][NextAmort]_vars

\* The keys that edit the entry, do arithmetic on it, recall and select a
\* register and store in the selected one.  The numerals typed are 2, -2, 0.5
\* and 10; MaxShown bounds the results of the arithmetic, which are halves.
KeysEntry ==
    {"0", "1", "2", "5", "decimal", "negate", "DEL", "add", "subtract", "multiply",
     "divide", "equals", "CCE", "RCL", "PV", "UP", "DOWN", "ENTER", "xPY", "RESET"}

TextsEntry == {<<"2">>, <<"-", "2">>, <<"0", ".", "5">>, <<"1", "0">>}

MaxShown == 2

ResultsEntry == {Q(n, 2) : n \in (-2 * MaxShown)..(2 * MaxShown)}

StoredEntry ==
    Only([place \in {"PV", "PY"} |-> IF place = "PV" THEN {Whole(-2)} ELSE {Whole(10)}])

\* The user asks for the results of Results only.
showsResult(key, Results) ==
    IF key = "equals" THEN orZero(parseFloat(entry')) \in Results ELSE TRUE

\* The keydown events: digits and the point, the operators, the keys that
\* edit, the quick keys of the registers, Ctrl+C on a text selection, and a
\* digit typed in an input field.  The rows clicked: each register's, and the
\* table outside its rows.
EventsEntry ==
    {Key("2"), Key("."), Key("Backspace"), Key("Enter"), Key("Escape"), Key("+"),
     Key("-"), Key("*"), Key("/"), Key("="), Key("ArrowUp"), Key("ArrowDown"),
     Key("n"), Ctrl("n"), Ctrl("I"), Ctrl("p"), Ctrl("m"), Ctrl("f"),
     [Ctrl("c") EXCEPT !.selected = TRUE], [Key("2") EXCEPT !.tagName = "INPUT"]}

RowsEntry == TvmVarSet \cup {NoVar}

NextEntry ==
    \/ \E key \in KeysEntry :
          pressed(key, TextsEntry, StoredEntry) /\ showsResult(key, ResultsEntry)
    \/ \E e \in EventsEntry :
          /\ keyed(e, TextsEntry, StoredEntry)
          /\ showsResult(IF e.key = "=" THEN "equals" ELSE e.key, ResultsEntry)
    \/ \E varName \in RowsEntry : handleTVMRowClick(varName)
    \/ messageTimeout

SpecEntry == Init /\ [][NextEntry]_vars

(***************************************************************************)
(* The solvers and the amortization applied on their own (SpecMath), as    *)
(* the test suite applies them: bench holds the arguments n, i, pv, pmt,   *)
(* fv, isBegin, the period range p1..p2, and the results (mid, a first     *)
(* result that a second application reads; out; amort).  The solvers are   *)
(* functions of their arguments and leave the calculator as constructed;   *)
(* calculateAmort() reads the registers, which are loaded with the         *)
(* arguments, and writes its results to the state.                         *)
(***************************************************************************)

\* The most periods, the largest payment and future value, the largest
\* present value, and the periodic rates of the bench.  A present value of 3
\* is paid off in two periods at 100% a period by the payment -4.
MaxN == 3
MaxAmt == 2
MaxPV == 3
Rates == {Whole(-1), Q(-1, 2), Zero, Q(1, 2), One}
Amounts == {Whole(a) : a \in -MaxAmt..MaxAmt}
Principals == {Whole(a) : a \in -MaxPV..MaxPV}

\* No amortization result.
NoAmort == [principal |-> Null, interest |-> Null, balance |-> Null]

\* The calculator's variables.
calc == <<N, IY, PV, PMT, FV, py, cy, BGN, entry, isNewEntry,
          lastComputed, lastComputedVar, rclMode, computeArmed, mode,
          cashFlows, cfIndex, amortP1, amortP2, amortResults, msgType, solves,
          selectedVar, operator, operand>>

\* The arguments are drawn; nothing is applied yet.
InitMath ==
    /\ constructed
    /\ bench \in [fn : {"input"}, n : 0..MaxN, i : Rates, pv : Principals, pmt : Amounts,
                  fv : Amounts, isBegin : BOOLEAN, p1 : {0}, p2 : {0},
                  mid : {Null}, out : {Null}, amort : {NoAmort}]

\* The results mid and out of the application fn are recorded.
record(fn, mid, out) ==
    /\ ~IsUnrep(mid) /\ ~IsUnrep(out)
    /\ bench' = [bench EXCEPT !.fn = fn, !.mid = mid, !.out = out]
    /\ UNCHANGED calc

\* The registers, the settings and the period range are loaded with the
\* arguments of the bench and the payment pmt: I/Y = 100 * i, C/Y = P/Y = 1.
loadAmort(pmt, p1, p2) ==
    /\ N' = Whole(bench.n) /\ IY' = Mul(bench.i, Whole(100))
    /\ PV' = bench.pv /\ PMT' = pmt
    /\ py' = One /\ cy' = One /\ BGN' = bench.isBegin
    /\ amortP1' = p1 /\ amortP2' = p2

\* calculateAmort() on the registers loaded, "state.amortResults = {...};
\* state.entry = formatNumber(balance).replace(/,/g, ''); state.isNewEntry =
\* true;", and the result r recorded.
recordAmort(fn, pmt, p1, p2, r) ==
    /\ loadAmort(pmt, p1, p2)
    /\ showAmort(r) /\ isNewEntry' = TRUE
    /\ bench' = [bench EXCEPT !.fn = fn, !.p1 = p1, !.p2 = p2, !.amort = r]
    /\ UNCHANGED <<FV, lastComputed, lastComputedVar, rclMode, computeArmed, mode,
                   cfState, msgType, solves, selectedVar, arith>>

\* fv = solveFV(n, i, pv, pmt, isBegin)
applySolveFV ==
    /\ bench.fn = "input"
    /\ record("solveFV",
              solveFV(Whole(bench.n), bench.i, bench.pv, bench.pmt, Bool(bench.isBegin)),
              Null)

\* solvePV(n, i, pmt, fv, isBegin) for the fv that solveFV returned.
applySolvePV ==
    /\ bench.fn = "solveFV"
    /\ record("solvePV", bench.mid,
              solvePV(Whole(bench.n), bench.i, bench.pmt, bench.mid, Bool(bench.isBegin)))

\* solvePMT(n, i, pv, fv, isBegin) for the fv that solveFV returned.
applySolvePMT ==
    /\ bench.fn = "solveFV"
    /\ record("solvePMT", bench.mid,
              solvePMT(Whole(bench.n), bench.i, bench.pv, bench.mid, Bool(bench.isBegin)))

\* solvePMT(n, i, pv, fv, true) and solvePMT(n, i, pv, fv, false)
applyTimings ==
    /\ bench.fn = "input"
    /\ record("timings",
              solvePMT(Whole(bench.n), bench.i, bench.pv, bench.fv, True),
              solvePMT(Whole(bench.n), bench.i, bench.pv, bench.fv, False))

\* pmt = solvePMT(n, i, pv, fv, isBegin), the payment that an amortization reads.
applyPayment ==
    /\ bench.fn = "input"
    /\ record("payment",
              solvePMT(Whole(bench.n), bench.i, bench.pv, bench.fv, Bool(bench.isBegin)),
              Null)

\* calculateAmort(n, iy, pv, pmt, cy, py, p1, p2, isBegin) on the bench, for the
\* payment pmt: iy = 100 * i, cy = py = 1.
benchAmort(pmt, p1, p2) ==
    calculateAmort(Whole(bench.n), Mul(bench.i, Whole(100)), bench.pv, pmt, One, One,
                   p1, p2, Bool(bench.isBegin))

\* The amortization of p1..p2 for the payment that solvePMT returned.
applyAmort(p1, p2) ==
    /\ bench.fn = "payment"
    /\ recordAmort("amort", bench.mid, p1, p2, benchAmort(bench.mid, p1, p2))

\* The amortization of p1..p2 for the payment pmt of the arguments.
applySchedule(p1, p2) ==
    /\ bench.fn = "input"
    /\ recordAmort("schedule", bench.pmt, p1, p2, benchAmort(bench.pmt, p1, p2))

NextMath ==
    \/ applySolveFV
    \/ applySolvePV
    \/ applySolvePMT
    \/ applyTimings
    \/ applyPayment
    \/ \E p2 \in 1..MaxN : \E p1 \in 1..p2 : applyAmort(p1, p2)
    \/ \E p2 \in 1..MaxN : \E p1 \in 1..p2 : applySchedule(p1, p2)

SpecMath == InitMath /\ [][NextMath]_vars

(***************************************************************************)
(* solveN applied on its own (SpecSolve), as the test suite applies it, to *)
(* the arguments i, pv, pmt, fv, isBegin of the bench.  The calculator     *)
(* stays as constructed.                                                   *)
(***************************************************************************)

\* The largest amount of the bench in tens, and its rates and amounts.
MaxTens == 2
SolveRates == {Q(-1, 2), Zero, Q(1, 2), One}
SolveAmounts == {Whole(10 * a) : a \in -MaxTens..MaxTens}

\* The arguments are drawn; nothing is applied yet.
InitSolve ==
    /\ constructed
    /\ bench \in [fn : {"input"}, i : SolveRates, pv : SolveAmounts,
                  pmt : SolveAmounts, fv : SolveAmounts, isBegin : BOOLEAN,
                  mid : {Null}, out : {Null}]

\* n = solveN(i, pv, pmt, fv, isBegin)
applySolveN ==
    /\ bench.fn = "input"
    /\ record("solveN",
              solveN(bench.i, bench.pv, bench.pmt, bench.fv, Bool(bench.isBegin)),
              Null)

NextSolve == applySolveN

SpecSolve == InitSolve /\ [][NextSolve]_vars

(***************************************************************************)
(* The root finders as loops (SpecSearch).  bench follows one invocation   *)
(* of solveIY, solveNNumeric or calculateIRR through its loops: pc is the  *)
(* loop it is in, iter the loop variable, and newton, probes and bisect    *)
(* count the passes made through the Newton loop, the loop that looks for  *)
(* a sign change and the bisection loop.  What a pass computes decides only *)
(* whether the loop is left early, which each action takes as an input.    *)
(***************************************************************************)

Searches == {"solveIY", "solveNNumeric", "calculateIRR"}

\* The invocation of fn at its first loop: solveNNumeric has no Newton loop.
searchStart(fn) ==
    [fn |-> fn, pc |-> IF fn = "solveNNumeric" THEN "bracket" ELSE "newton",
     iter |-> 0, newton |-> 0, probes |-> 0, bisect |-> 0]

InitSearch == constructed /\ bench \in {searchStart(fn) : fn \in Searches}

\* "for (let iter = 0; iter < 100; iter++)" of calculateIRR, for both searches.
newtonLimitOfIRR(fn) == 100

\* "for (let iter = 0; iter < 50; iter++)" of solveIY and
\* "for (let iter = 0; iter < 100; iter++)" of calculateIRR.
newtonLimit(fn) == IF fn = "solveIY" THEN 50 ELSE 100

\* The loop that looks for a sign change goes on at its pass number k (from 0):
\* "for (let test = 1; test <= 10000; test *= 10)" in solveNNumeric, the seven
\* tests of bisectionSolveI and the six of bisectionIRR.
probeContinues(fn, k) ==
    IF fn = "solveNNumeric" THEN 10 ^ k <= 10000
    ELSE IF fn = "solveIY" THEN k < 7
    ELSE k < 6

\* The bisection loops: "for (let iter = 0; iter < 100; iter++)" in
\* solveNNumeric, "iter < maxIter" with maxIter = 100 in the other two.
bisectContinues(k) == k < 100

\* One pass of the Newton loop; stop: it ends in a break.
newtonPass(stop) ==
    /\ bench.pc = "newton" /\ bench.iter < newtonLimit(bench.fn)
    /\ bench' = [bench EXCEPT !.newton = @ + 1,
                              !.pc = IF stop THEN "fallback" ELSE @,
                              !.iter = IF stop THEN 0 ELSE @ + 1]
    /\ UNCHANGED calc

\* The Newton loop ends by its count.
newtonExit ==
    /\ bench.pc = "newton" /\ ~(bench.iter < newtonLimit(bench.fn))
    /\ bench' = [bench EXCEPT !.pc = "fallback", !.iter = 0]
    /\ UNCHANGED calc

\* "If Newton didn't converge well, try bisection"; diverged: the residual at
\* the best iterate is above 1e-6.
fallback(diverged) ==
    /\ bench.pc = "fallback"
    /\ bench' = [bench EXCEPT !.pc = IF diverged THEN "bracket" ELSE "done"]
    /\ UNCHANGED calc

\* The bisection function from its start; sameSign: f(lo) * f(hi) > 0, so a sign
\* change is looked for first.
bracket(sameSign) ==
    /\ bench.pc = "bracket"
    /\ bench' = [bench EXCEPT !.pc = IF sameSign THEN "probe" ELSE "bisect"]
    /\ UNCHANGED calc

\* One pass of the loop that looks for a sign change; found: it ends in a break.
probePass(found) ==
    /\ bench.pc = "probe" /\ probeContinues(bench.fn, bench.iter)
    /\ bench' = [bench EXCEPT !.probes = @ + 1,
                              !.pc = IF found THEN "bisect" ELSE @,
                              !.iter = IF found THEN 0 ELSE @ + 1]
    /\ UNCHANGED calc

\* The loop that looks for a sign change ends with its tests.
probeExit ==
    /\ bench.pc = "probe" /\ ~probeContinues(bench.fn, bench.iter)
    /\ bench' = [bench EXCEPT !.pc = "bisect", !.iter = 0]
    /\ UNCHANGED calc

\* One pass of the bisection loop; found: |f(mid)| < 1e-10, mid is returned.
bisectPass(found) ==
    /\ bench.pc = "bisect" /\ bisectContinues(bench.iter)
    /\ bench' = [bench EXCEPT !.bisect = @ + 1,
                              !.pc = IF found THEN "done" ELSE @,
                              !.iter = IF found THEN 0 ELSE @ + 1]
    /\ UNCHANGED calc

\* The bisection loop ends by its count: (lo + hi) / 2 is returned.
bisectExit ==
    /\ bench.pc = "bisect" /\ ~bisectContinues(bench.iter)
    /\ bench' = [bench EXCEPT !.pc = "done", !.iter = 0]
    /\ UNCHANGED calc

NextSearch ==
    \/ \E stop \in BOOLEAN : newtonPass(stop)
    \/ newtonExit
    \/ \E diverged \in BOOLEAN : fallback(diverged)
    \/ \E sameSign \in BOOLEAN : bracket(sameSign)
    \/ \E found \in BOOLEAN : probePass(found)
    \/ probeExit
    \/ \E found \in BOOLEAN : bisectPass(found)
    \/ bisectExit

SpecSearch == InitSearch /\ [][NextSearch]_vars

(***************************************************************************)
(* The rate estimate of the Newton loops (SpecNewton).  bench follows the  *)
(* variable i of solveIY or r of calculateIRR through the passes of the    *)
(* Newton loop.  The quotient fVal / dfVal (npv / deriv) of a pass depends *)
(* on the registers or the cash flows; each pass takes it as an input,     *)
(* the overflow of the quotient to an infinity included.                   *)
(***************************************************************************)

MaxPasses == 3

\* The quotients of a finite residual by a finite derivative; four of them take
\* the first step to the double next to -0.99 (0.05 - 1.04, 0.1 - 1.09) or to
\* 10 (0.05 + 9.95, 0.1 + 9.9), where the side of the clamp that the double
\* falls on is not known: these steps are not followed.
Quotients ==
    {NegInf, Whole(-20), Q(-199, 20), Q(-99, 10), Whole(-2), Q(-1, 10),
     Q(1, 10), Q(26, 25), Q(109, 100), Whole(2), Whole(20), PosInf}

\* "let i = 0.05" of solveIY and "let r = 0.1" of calculateIRR.
rateStart(fn) ==
    [fn |-> fn, pc |-> "newton", iter |-> 0,
     i |-> IF fn = "solveIY" THEN Q(1, 20) ELSE Q(1, 10)]

InitNewton == constructed /\ bench \in {rateStart(fn) : fn \in {"solveIY", "calculateIRR"}}

\* The end of a pass: "if (Math.abs(newI - i) < 1e-12) { bestI = newI; break; }
\* i = newI;" (1e-10 in calculateIRR).
moveRate(newI, digits) ==
    /\ ~IsUnrep(newI)
    /\ Apart(newI, bench.i) \/ ~VagueAbs(Sub(newI, bench.i), digits)
    /\ bench' = IF ~Apart(newI, bench.i) /\ AbsLtPow10(Sub(newI, bench.i), digits)
                THEN [bench EXCEPT !.pc = "fallback"]
                ELSE [bench EXCEPT !.i = newI, !.iter = @ + 1]

\* A pass of the Newton loop of solveIY that reaches "let newI = i - fVal / dfVal".
newtonStepIY(quotient) ==
    /\ bench.fn = "solveIY" /\ bench.pc = "newton" /\ bench.iter < MaxPasses
    /\ moveRate(raisedRate(bench.i, Sub(bench.i, quotient)), 12)
    /\ UNCHANGED calc

\* A pass of the Newton loop of calculateIRR that reaches "let newR = r - npv / deriv".
newtonStepIRR(quotient) ==
    /\ bench.fn = "calculateIRR" /\ bench.pc = "newton" /\ bench.iter < MaxPasses
    /\ moveRate(raisedIRR(bench.i, Sub(bench.i, quotient)), 10)
    /\ UNCHANGED calc

\* A pass that ends in a break before the step: the residual is below 1e-10 or
\* the derivative below 1e-15.
newtonBreak ==
    /\ bench.pc = "newton" /\ bench.iter < MaxPasses
    /\ bench' = [bench EXCEPT !.pc = "fallback"]
    /\ UNCHANGED calc

NextNewton ==
    \/ \E quotient \in Quotients : newtonStepIY(quotient)
    \/ \E quotient \in Quotients : newtonStepIRR(quotient)
    \/ newtonBreak

SpecNewton == InitNewton /\ [][NextNewton]_vars

(***************************************************************************)
(* The bracket of the bisections (SpecBisect).  bench follows lo and hi of *)
(* bisectionSolveI and of solveNNumeric.  Both halve the bracket a hundred *)
(* times, more often than a double has bits, so lo and hi are held here as *)
(* doubles in full: a binary floating-point number s * m * 2^e with the    *)
(* sign s, a mantissa m of Precision = 53 bits and the exponent e of its   *)
(* last bit.  The mantissa is a pair of limbs <<h, l>>, m = h * 2^27 + l,  *)
(* with 2^25 <= h < 2^26 and 0 <= l < 2^27 (the integers of the model      *)
(* checker have 32 bits); a sum is formed in full, as a sequence of limbs, *)
(* and rounded to nearest, ties to even, as JavaScript rounds.  The        *)
(* exponent is not bounded: no value of these searches is subnormal or     *)
(* overflows.  The residual f is an argument of bisectionSolveI; the       *)
(* searches use only its sign and whether it is below 1e-10, so f is given *)
(* by its roots and its sign below the first of them.                      *)
(***************************************************************************)

Precision == 53

\* The base of a limb, and the least top limb of a mantissa.
Limb == 2 ^ 27
TopBit == 2 ^ (Precision - 28)

\* The double 0, and k limbs 0.
FZero == [s |-> 0, m |-> <<0, 0>>, e |-> 0]
Zeros(k) == [j \in 1..k |-> 0]

\* The number of bits of the limb v # 0.
bitLength(v) == CHOOSE k \in 1..27 : 2 ^ (k - 1) <= v /\ (k = 27 \/ v < 2 ^ k)

\* The limbs w # 0 without their leading zeros.
Stripped(w) == SubSeq(w, CHOOSE t \in 1..Len(w) : w[t] # 0 /\ \A j \in 1..(t - 1) : w[j] = 0, Len(w))

\* x < y for naturals given by limb sequences of one length.
LessLimbs(x, y) == \E i \in 1..Len(x) : x[i] < y[i] /\ \A j \in 1..(i - 1) : x[j] = y[j]

\* x + y for naturals given by limb sequences of one length: the carry into
\* limb i comes from a limb below that overflows, through limbs that are full;
\* the sum has one limb more.
carryInto(x, y, i) ==
    \E j \in (i + 1)..Len(x) :
        x[j] + y[j] >= Limb /\ \A k \in (i + 1)..(j - 1) : x[k] + y[k] = Limb - 1
sumLimbs(x, y) ==
    [i \in 1..(Len(x) + 1) |->
        IF i = 1 THEN (IF carryInto(x, y, 0) THEN 1 ELSE 0)
        ELSE (x[i - 1] + y[i - 1] + (IF carryInto(x, y, i - 1) THEN 1 ELSE 0)) % Limb]

\* x - y for x >= y: the borrow from limb i is taken by a limb below that is
\* short, through limbs that are equal.
borrowFrom(x, y, i) ==
    \E j \in (i + 1)..Len(x) : x[j] < y[j] /\ \A k \in (i + 1)..(j - 1) : x[k] = y[k]
differenceLimbs(x, y) ==
    [i \in 1..Len(x) |-> (x[i] - y[i] - (IF borrowFrom(x, y, i) THEN 1 ELSE 0) + Limb) % Limb]

\* w * 2^r for 0 <= r < 27: each limb passes its top r bits on to the limb
\* above; the product has one limb more.
shiftedLeft(w, r) ==
    [i \in 1..(Len(w) + 1) |->
        (IF i > 1 THEN (w[i - 1] % 2 ^ (27 - r)) * 2 ^ r ELSE 0)
        + (IF i <= Len(w) THEN w[i] \div 2 ^ (27 - r) ELSE 0)]

\* The mantissa <<h, l>> + 1, with the exponent raised when it carries out of
\* its 53 bits.
succ(sign, m, e) ==
    IF m[2] + 1 < Limb THEN [s |-> sign, m |-> <<m[1], m[2] + 1>>, e |-> e]
    ELSE IF m[1] + 1 < 2 * TopBit THEN [s |-> sign, m |-> <<m[1] + 1, 0>>, e |-> e]
    ELSE [s |-> sign, m |-> <<TopBit, 0>>, e |-> e + 1]

\* The limbs t, more than two of them, are rounded up: the first bit dropped
\* is 1 and either a later one is (sticky: below the last of t too) or the
\* last bit kept is 1 (a tie, to the even mantissa).
roundsUp(t, sticky) ==
    /\ t[3] >= Limb \div 2
    /\ \/ sticky
       \/ t[3] > Limb \div 2
       \/ t[2] % 2 = 1
       \/ \E j \in 4..Len(t) : t[j] # 0

\* The double nearest to sign * t * 2^e for limbs t whose first has 26 bits.
roundedTo(sign, t, sticky, e) ==
    IF Len(t) = 1 THEN [s |-> sign, m |-> <<t[1], 0>>, e |-> e - 27]
    ELSE IF Len(t) = 2 THEN [s |-> sign, m |-> t, e |-> e]
    ELSE IF roundsUp(t, sticky) THEN succ(sign, <<t[1], t[2]>>, e + 27 * (Len(t) - 2))
    ELSE [s |-> sign, m |-> <<t[1], t[2]>>, e |-> e + 27 * (Len(t) - 2)]

\* The double nearest to sign * w * 2^e for the limbs w # 0 without leading
\* zeros, shifted left by r bits to give its first limb 26 bits.
normalized(sign, w, sticky, e, r) == roundedTo(sign, Stripped(shiftedLeft(w, r)), sticky, e - r)

\* The double nearest to sign * w * 2^e for the limbs w # 0 (sticky: the
\* number lies above w * 2^e, by less than 2^e).
nearest(sign, w, sticky, e) ==
    normalized(sign, Stripped(w), sticky, e,
               (Precision - bitLength(Stripped(w)[1])) % 27)

\* The next 9 bits of the quotient r / d < 1 and the remainder after them
\* (d < 2^22), and the next limb of 27 bits and the remainder after it.
chunk(r, d) == (r * 512) \div d
rest(r, d) == (r * 512) % d
limb(r, d) == chunk(r, d) * 2 ^ 18 + chunk(rest(r, d), d) * 2 ^ 9 + chunk(rest(rest(r, d), d), d)
after(r, d) == rest(rest(rest(r, d), d), d)

\* The double nearest to sign * (q + r / d): the quotient r / d < 1 is divided
\* out to four limbs, which with q # 0 or d < 2^22 hold more than a mantissa.
quotient(sign, q, r, d) ==
    nearest(sign,
            <<q \div Limb, q % Limb, limb(r, d), limb(after(r, d), d),
              limb(after(after(r, d), d), d), limb(after(after(after(r, d), d), d), d)>>,
            after(after(after(after(r, d), d), d), d) # 0, -108)

\* The number literal n / d, as 0.01 or -0.99 (0 < d < 2^22).
Float(n, d) ==
    IF n = 0 THEN FZero
    ELSE quotient(IF n < 0 THEN -1 ELSE 1, AbsInt(n) \div d, AbsInt(n) % d, d)

\* sa * x * 2^e + sb * y * 2^e rounded, for x, y # 0 of one length.
combined(sa, x, sb, y, e) ==
    IF sa = sb THEN nearest(sa, sumLimbs(x, y), FALSE, e)
    ELSE IF x = y THEN FZero
    ELSE IF LessLimbs(x, y) THEN nearest(sb, differenceLimbs(y, x), FALSE, e)
    ELSE nearest(sa, differenceLimbs(x, y), FALSE, e)

\* a + b for a, b # 0 with the exponent of a not below that of b: a b that is
\* below a quarter of the last place of a is rounded away, any other is added
\* in full, a being a.m * 2^(a.e - b.e) in the place of b.
aligned(a, b) ==
    IF a.e - b.e >= Precision + 2 THEN a
    ELSE combined(a.s, shiftedLeft(a.m, (a.e - b.e) % 27) \o Zeros((a.e - b.e) \div 27),
                  b.s, Zeros(1 + (a.e - b.e) \div 27) \o b.m, b.e)

\* |a| < |b| for a, b # 0.
magnitudeLt(a, b) == a.e < b.e \/ (a.e = b.e /\ LessLimbs(a.m, b.m))

\* a + b, -a, a / 2 and a < b, a <= b on doubles.
FAdd(a, b) ==
    IF a.s = 0 THEN b ELSE IF b.s = 0 THEN a
    ELSE IF a.e >= b.e THEN aligned(a, b) ELSE aligned(b, a)
FNeg(a) == [a EXCEPT !.s = -@]
FHalf(a) == IF a.s = 0 THEN a ELSE [a EXCEPT !.e = @ - 1]
FLt(a, b) ==
    IF a.s # b.s THEN a.s < b.s
    ELSE IF a.s = 0 THEN FALSE
    ELSE IF a.s = 1 THEN magnitudeLt(a, b) ELSE magnitudeLt(b, a)
FLe(a, b) == ~FLt(b, a)

\* "const mid = (lo + hi) / 2"
midpoint(lo, hi) == FHalf(FAdd(lo, hi))

\* The sign of f(x) for f with the roots given in ascending order and the sign
\* lead below the first: f changes sign at each root and is 0 (below 1e-10) at
\* the roots only.
RECURSIVE signFrom(_, _, _)
signFrom(roots, lead, x) ==
    IF roots = << >> THEN lead
    ELSE IF x = Head(roots) THEN 0
    ELSE IF FLt(x, Head(roots)) THEN lead
    ELSE signFrom(Tail(roots), -lead, x)

residualSign(shape, x) == signFrom(shape.roots, shape.lead, x)

\* The roots of the residuals tried: none, one or two, inside the initial
\* brackets and beyond them.
RootSets ==
    {<< >>, <<Float(3, 10)>>, <<Float(3, 10), Float(6, 5)>>, <<Float(5, 1)>>,
     <<Float(3, 10), Float(500, 1)>>, <<Float(5, 1), Float(500, 1)>>,
     <<Float(5000, 1)>>, <<Float(3, 1), Float(5000, 1)>>}

\* The residuals tried on the bracket from lo to hi: the roots above and the
\* root at the first midpoint.
Shapes(lo, hi) ==
    {[roots |-> r, lead |-> s] : r \in RootSets \cup {<<midpoint(lo, hi)>>}, s \in {-1, 1}}

\* No value returned yet.
NoOut == [s |-> 0, m |-> <<0, 0>>, e |-> 1]

\* The search fn on f from lo to hi: "let fLo = f(lo), fHi = f(hi)".
bracketStart(fn, shape, lo, hi) ==
    [fn |-> fn, pc |-> "bounds", shape |-> shape, lo |-> lo, hi |-> hi,
     fLo |-> residualSign(shape, lo), fHi |-> residualSign(shape, hi),
     lo0 |-> lo, hi0 |-> hi, iter |-> 0, out |-> NoOut]

\* bisectionSolveI(f, -0.99, 2, 100) and solveNNumeric with "let lo = 0.01,
\* hi = 1000".
InitBisect ==
    /\ constructed
    /\ bench \in
         {bracketStart("bisectionSolveI", shape, Float(-99, 100), Float(2, 1)) :
            shape \in Shapes(Float(-99, 100), Float(2, 1))}
         \cup {bracketStart("solveNNumeric", shape, Float(1, 100), Float(1000, 1)) :
                 shape \in Shapes(Float(1, 100), Float(1000, 1))}

\* The bisection loop is entered with the bracket of b.
bisectStart(b) == [b EXCEPT !.pc = "bisect", !.lo0 = b.lo, !.hi0 = b.hi, !.iter = 0]

\* solveNNumeric, "Try to find better bounds": the upper end after the tests
\* from test on.
RECURSIVE betterBound(_, _, _, _)
betterBound(shape, fLo, hi, test) ==
    IF test > 10000 THEN hi
    ELSE IF residualSign(shape, Float(test, 1)) * fLo < 0 THEN Float(test, 1)
    ELSE betterBound(shape, fLo, hi, test * 10)

\* solveNNumeric, "Check if solution exists", up to the bisection loop.
findBounds ==
    /\ bench.fn = "solveNNumeric" /\ bench.pc = "bounds"
    /\ bench' = bisectStart([bench EXCEPT !.hi =
                   IF bench.fLo * bench.fHi > 0
                   THEN betterBound(bench.shape, bench.fLo, bench.hi, 1) ELSE @])
    /\ UNCHANGED calc

\* "for (let test of [-0.5, 0, 0.01, 0.1, 0.5, 1, 1.5])"
rateTests ==
    <<Float(-1, 2), Float(0, 1), Float(1, 100), Float(1, 10), Float(1, 2),
      Float(1, 1), Float(3, 2)>>

\* bisectionSolveI, "Try to find a sign change": the bracket after the tests
\* (signChangeAt decides on f(test) = ft).
RECURSIVE signChange(_, _)
signChangeAt(b, tests, test, ft) ==
    IF FLt(b.lo, test) /\ FLt(test, b.hi) /\ ft * b.fLo < 0
    THEN [b EXCEPT !.hi = test, !.fHi = ft]
    ELSE IF FLt(b.lo, test) /\ FLt(test, b.hi) /\ ft * b.fHi < 0
    THEN [b EXCEPT !.lo = test, !.fLo = ft]
    ELSE signChange(b, Tail(tests))

signChange(b, tests) ==
    IF tests = << >> THEN b
    ELSE signChangeAt(b, tests, Head(tests), residualSign(b.shape, Head(tests)))

\* bisectionSolveI, "Adjust bounds if needed", up to the bisection loop.
adjustBounds ==
    /\ bench.fn = "bisectionSolveI" /\ bench.pc = "bounds"
    /\ bench' = bisectStart(IF bench.fLo * bench.fHi > 0
                            THEN signChange(bench, rateTests) ELSE bench)
    /\ UNCHANGED calc

\* A pass that moves the other end: lo = mid on a sign change between lo and
\* mid, hi = mid otherwise.
halvedAcross(b, mid, fMid, fl) ==
    IF fMid = 0 THEN [b EXCEPT !.pc = "done", !.out = mid]
    ELSE IF fl * fMid < 0
    THEN [b EXCEPT !.lo = mid, !.iter = @ + 1,
                   !.fLo = IF b.fn = "bisectionSolveI" THEN fMid ELSE @]
    ELSE [b EXCEPT !.hi = mid, !.iter = @ + 1,
                   !.fHi = IF b.fn = "bisectionSolveI" THEN fMid ELSE @]

\* One pass of a bisection loop on mid with fMid = f(mid) and fl = f(lo):
\* "if (Math.abs(fMid) < 1e-10) return mid", then hi = mid or lo = mid.
\* bisectionSolveI keeps fLo and fHi with the ends, solveNNumeric does not.
halved(b, mid, fMid, fl) ==
    IF fMid = 0 THEN [b EXCEPT !.pc = "done", !.out = mid]
    ELSE IF fl * fMid < 0
    THEN [b EXCEPT !.hi = mid, !.iter = @ + 1,
                   !.fHi = IF b.fn = "bisectionSolveI" THEN fMid ELSE @]
    ELSE [b EXCEPT !.lo = mid, !.iter = @ + 1,
                   !.fLo = IF b.fn = "bisectionSolveI" THEN fMid ELSE @]

\* One pass of "for (let iter = 0; iter < 100; iter++)"; solveNNumeric
\* evaluates f(lo) in every pass.
bisectStep ==
    /\ bench.pc = "bisect" /\ bench.iter < 100
    /\ bench' = halved(bench, midpoint(bench.lo, bench.hi),
                       residualSign(bench.shape, midpoint(bench.lo, bench.hi)),
                       IF bench.fn = "solveNNumeric"
                       THEN residualSign(bench.shape, bench.lo) ELSE bench.fLo)
    /\ UNCHANGED calc

\* "return (lo + hi) / 2" after the last pass.
bisectReturn ==
    /\ bench.pc = "bisect" /\ ~(bench.iter < 100)
    /\ bench' = [bench EXCEPT !.pc = "done", !.out = midpoint(bench.lo, bench.hi)]
    /\ UNCHANGED calc

NextBisect ==
    \/ findBounds
    \/ adjustBounds
    \/ bisectStep
    \/ bisectReturn

SpecBisect == InitBisect /\ [][NextBisect]_vars

(***************************************************************************)
(* The best estimate of the rate searches (SpecBest).  bench follows one   *)
(* invocation of solveIY or calculateIRR through its Newton loop and its   *)
(* bisection fallback, with the size of the residual (|f(i)|, |npv(r)|) at *)
(* each rate as a level: 0 is below 1e-10, 1 is from 1e-10 to 1e-6, and    *)
(* the levels from 2 on are above 1e-6, in increasing order.  cur is the   *)
(* level at the current iterate, bestF the code's bestF (bestNPV), best    *)
(* the level at bestI (bestR), seen the lowest level that the Newton loop  *)
(* has evaluated, out the level at the rate returned.  The level at each   *)
(* new rate is an input of the action that moves to it.                    *)
(***************************************************************************)

MaxLevel == 3
Levels == 0..MaxLevel

\* |f| < 1e-10, and |f| > 1e-6.
isRoot(level) == level = 0
notConverged(level) == level >= 2

\* "let bestI = i; let bestF = Math.abs(f(i));" for the level f0 at the
\* initial guess.
bestStart(fn, f0) ==
    [fn |-> fn, pc |-> "newton", iter |-> 0, cur |-> f0,
     bestF |-> f0, best |-> f0, seen |-> f0, out |-> f0]

InitBest ==
    /\ constructed
    /\ bench \in {bestStart(fn, f0) : fn \in {"solveIY", "calculateIRR"}, f0 \in Levels}

\* The lesser of two levels.
lesser(a, b) == IF a < b THEN a ELSE b

\* "const fVal = f(i)" and "if (Math.abs(fVal) < bestF) { bestF =
\* Math.abs(fVal); bestI = i; }" in the invocation b.
evaluated(b) ==
    IF b.cur < b.bestF
    THEN [b EXCEPT !.bestF = b.cur, !.best = b.cur, !.seen = lesser(b.seen, b.cur)]
    ELSE [b EXCEPT !.seen = lesser(b.seen, b.cur)]

\* A Newton pass is run: the loop variable is below the limit.
inNewtonPass == bench.pc = "newton" /\ bench.iter < newtonLimit(bench.fn)

\* "if (Math.abs(fVal) < 1e-10) { bestI = i; break; }"
rootPass ==
    /\ inNewtonPass /\ isRoot(bench.cur)
    /\ bench' = [bench EXCEPT !.best = bench.cur, !.seen = lesser(bench.seen, bench.cur),
                              !.pc = "fallback"]
    /\ UNCHANGED calc

\* "if (Math.abs(dfVal) < 1e-15) break;"
flatPass ==
    /\ inNewtonPass /\ ~isRoot(bench.cur)
    /\ bench' = [evaluated(bench) EXCEPT !.pc = "fallback"]
    /\ UNCHANGED calc

\* "if (Math.abs(newI - i) < 1e-12) { bestI = newI; break; }": newI lies
\* within 1e-12 (1e-10 for IRR) of i, and the level at newI is next, which a
\* steep f makes any level.
stepPass(next) ==
    /\ inNewtonPass /\ ~isRoot(bench.cur)
    /\ bench' = [evaluated(bench) EXCEPT !.best = next, !.pc = "fallback"]
    /\ UNCHANGED calc

\* "i = newI;" and the next pass, for the level next at newI.
movePass(next) ==
    /\ inNewtonPass /\ ~isRoot(bench.cur)
    /\ bench' = [evaluated(bench) EXCEPT !.cur = next, !.iter = bench.iter + 1]
    /\ UNCHANGED calc

\* The Newton loop ends at its limit.
passesDone ==
    /\ bench.pc = "newton" /\ bench.iter = newtonLimit(bench.fn)
    /\ bench' = [bench EXCEPT !.pc = "fallback"]
    /\ UNCHANGED calc

\* "if (Math.abs(f(bestI)) > 1e-6) { bestI = bisectionSolveI(f, -0.99, 2, 100); }",
\* for the level result at the rate that the bisection returns: 0 when it
\* returns a midpoint with |fMid| < 1e-10, any level for the (lo + hi) / 2 it
\* returns after its last pass.
bestFallback(result) ==
    /\ bench.pc = "fallback"
    /\ bench' = [bench EXCEPT !.out = IF notConverged(bench.best) THEN result
                                      ELSE bench.best,
                              !.pc = "done"]
    /\ UNCHANGED calc

NextBest ==
    \/ rootPass
    \/ flatPass
    \/ \E next \in Levels : stepPass(next)
    \/ \E next \in Levels : movePass(next)
    \/ passesDone
    \/ \E result \in Levels : bestFallback(result)

SpecBest == InitBest /\ [][NextBest]_vars

(***************************************************************************)
(* Properties of the TVM worksheet (Spec).                                 *)
(***************************************************************************)

\* P/Y and C/Y are set when CPT is pressed.
frequenciesSet == Gt(py, Zero) /\ Gt(cy, Zero)

\* handleKeyClick, the key of the register varName pressed while CPT is armed:
\* computeVariable(varName).
armedKey(varName) == computeArmed /\ handleKeyClick(varName)

\* The registers other than varName keep their values in this step.
othersKept(varName) == \A v \in TvmVarSet \ {varName} : Reg(v)' = Reg(v)

\* C1, as stated: pressing CPT with P/Y and C/Y set while no register, or more
\* than one register, is unset ends in an error message and changes no TVM
\* register.
C1_ErrorUnlessOneUnset ==
    [][(frequenciesSet /\ Cardinality(blankVars) # 1 /\ compute)
         => (msgType' = "error" /\ UNCHANGED tvmRegs)]_vars

\* C1, amended: pressing CPT with P/Y and C/Y set ends in an error that changes
\* no TVM register (and does not arm compute mode) when more than one register
\* is unset.  With no register
\* unset it arms compute mode with an informational message and changes no
\* register when nothing was computed last, and otherwise recomputes the last
\* computed register: no other register changes, and the outcome is a success
\* or an error that changes no register at all.
C1_ComputeOutcomes ==
    [][(frequenciesSet /\ Cardinality(blankVars) # 1 /\ compute)
         => /\ Cardinality(blankVars) > 1
                 => (msgType' = "error" /\ UNCHANGED <<tvmRegs, computeArmed>>)
            /\ (blankVars = {} /\ lastComputedVar = NoVar)
                 => (computeArmed' /\ msgType' = "info" /\ UNCHANGED tvmRegs)
            /\ (blankVars = {} /\ lastComputedVar # NoVar)
                 => /\ othersKept(lastComputedVar)
                    /\ ~computeArmed'
                    /\ msgType' \in {"success", "error"}
                    /\ msgType' = "error" => UNCHANGED tvmRegs]_vars

\* C1, the case that separates the two statements: CPT was pressed with every
\* register set and nothing computed last, and compute mode is armed.
C1_Armed ==
    /\ computeArmed /\ msgType = "info"
    /\ blankVars = {} /\ lastComputedVar = NoVar /\ frequenciesSet

\* The TVM equation's residual FV - PV (1+i)^N - PMT AF at the registers.
residualAtRegisters ==
    residualI(N, PV, PMT, FV, Bool(BGN), getPeriodicRate(IY, cy, py))

\* The N search is the general case: neither |i| < 1e-10 nor |PMT| < 1e-15.
generalCaseN ==
    /\ ~AbsLtPow10(getPeriodicRate(IY, cy, py), 10)
    /\ ~AbsLtPow10(PMT, 15)

\* CPT has just stored a result in register varName: the success message is up
\* and the display shows the stored, non-zero result.
justSolved(varName) ==
    /\ msgType = "success" /\ lastComputedVar = varName
    /\ isNewEntry /\ lastComputed # Zero
    /\ Reg(varName) = lastComputed
    /\ entry = replace(formatNumber(lastComputed), ",")

\* The residual r is within 1e-6, where the model follows the residual and
\* can tell on which side of 1e-6 its double lies.
withinTolerance(r) ==
    IsUnrep(r) \/ VagueAbs(r, 6) \/ (IsFinite(r) /\ ~AbsGtPow10(r, 6))

\* C2: a result of the I/Y search, or of the general-case N search, that does
\* not solve the TVM equation (residual beyond 1e-6) is never stored as a
\* successful solve: whenever CPT has just stored I/Y or N with a success
\* message, the equation holds at the registers within 1e-6.
C2_DivergentNeverStored ==
    (/\ frequenciesSet
     /\ justSolved("IY") \/ (justSolved("N") /\ generalCaseN))
      => withinTolerance(residualAtRegisters)

\* A register or lastComputed holds a finite number or nothing.
FiniteOrUnset(v) == v.k \in {"num", "null"}

\* C4: a solve whose result is not finite leaves the state as it was: under
\* compute() the target register stays unset, under computeVariable() it keeps
\* its prior value, and in both the other four registers, lastComputed and
\* lastComputedVar are unchanged.  (A compute step changes no register but its
\* target and no setting, which is tested before the solver is run again.)
C4_NonFiniteLeavesState ==
    [][\/ UNCHANGED <<tvmRegs, lastComputed, lastComputedVar>>
       \/ ~ \/ /\ frequenciesSet /\ Cardinality(blankVars) = 1
               /\ othersKept(solveFor) /\ UNCHANGED <<settings, computeArmed>>
               /\ ~IsFinite(solveByCompute(solveFor))
               /\ compute
            \/ \E v \in TvmVarSet :
                 /\ frequenciesSet /\ computeArmed /\ ~computeArmed'
                 /\ othersKept(v)
                 /\ ~IsFinite(solveByVariable(v))
                 /\ armedKey(v)]_vars

\* C4, its case: CPT has reported an error (the entry buffer was not being
\* typed, so the message is not that of a settings key) with one register unset
\* whose solve is not finite, and that register is still unset.
C4_NonFiniteSolve ==
    /\ msgType = "error" /\ isNewEntry /\ frequenciesSet
    /\ Cardinality(blankVars) = 1
    /\ ~IsFinite(solveByCompute(solveFor))
    /\ ~IsUnrep(solveByCompute(solveFor))

\* The stored value is the result up to rounding, where the model follows the
\* result.
storedAs(value, result) == IsUnrep(result) \/ SameValue(value, result)

\* C19: solving for I/Y gives the same result on both compute paths: when CPT
\* is armed (all five registers set) and the I/Y key stores a rate through
\* computeVariable('IY'), that rate is the one that solveIY returns for the
\* same N, PV, PMT, FV, timing, C/Y and P/Y in the roles compute() gives them.
C19_SameRateOnBothPaths ==
    [][(/\ computeArmed /\ frequenciesSet /\ blankVars = {}
        /\ armedKey("IY") /\ msgType' = "success")
         => storedAs(IY', solveIY(N, PV, PMT, FV, Bool(BGN), cy, py))]_vars

\* The variable that CPT solves for: the one unset register, or with every
\* register set the variable computed last.
cptTarget == IF blankVars = {} THEN lastComputedVar ELSE solveFor

\* The step has written the result of a solve for varName and nothing else: the
\* other four registers and C/Y, P/Y and BGN are as before, the register of
\* varName is set, lastComputedVar is varName and lastComputed is its value.
solvedOnly(varName) ==
    \E v \in TvmVarSet :
        /\ v = varName
        /\ othersKept(v) /\ UNCHANGED settings
        /\ ~IsNull(Reg(v)')
        /\ lastComputedVar' = v /\ lastComputed' = Reg(v)'

\* C25: a successful CPT writes exactly one TVM register, the solved one, and
\* sets lastComputedVar to it and lastComputed to its value; the other four
\* registers and C/Y, P/Y and BGN are unchanged.  With all five registers set
\* and a variable computed before, the solved one is that same variable.  The
\* same holds of the register key that solves after CPT was armed.
C25_SolvedRegisterOnly ==
    [][/\ (msgType' = "success" /\ frequenciesSet /\ compute)
            => solvedOnly(cptTarget)
       /\ \A varName \in TvmVarSet :
            (msgType' = "success" /\ computeArmed /\ armedKey(varName))
                => solvedOnly(varName)]_vars

\* C25, its case: with all five registers set CPT has recomputed the variable
\* computed before it, the second result stored since the last reset.
C25_Recomputed ==
    /\ msgType = "success" /\ blankVars = {} /\ solves = 2
    /\ lastComputedVar \in TvmVarSet /\ isNewEntry
    /\ entry = replace(formatNumber(lastComputed), ",")

\* The fields of the `state` literal hold their initial values.
initialFields ==
    /\ N = Null /\ IY = Null /\ PV = Null /\ PMT = Null /\ FV = Null
    /\ cy = Zero /\ py = Zero /\ BGN = FALSE
    /\ entry = <<"0">> /\ isNewEntry
    /\ lastComputed = Null /\ lastComputedVar = NoVar
    /\ ~rclMode /\ ~computeArmed /\ mode = "tvm"
    /\ selectedVar = NoVar /\ operator = NoOp /\ operand = Null
    /\ cashFlows = <<Zero>> /\ cfIndex = 0
    /\ amortP1 = 1 /\ amortP2 = 1 /\ amortResults = Null

\* C27: RESET restores the initial state: after reset every field of the
\* calculator state (the TVM registers, C/Y, P/Y, BGN, entry, isNewEntry,
\* selectedVar, lastComputed, lastComputedVar, operator, operand, rclMode,
\* computeArmed, mode, cashFlows,
\* cfIndex, amortP1, amortP2, amortResults) equals its value in the initial
\* state, from any reachable state.
C27_ResetRestoresInitial == [][reset => initialFields']_vars

(***************************************************************************)
(* Properties of the keys that ask for P/Y and C/Y (SpecSetup).            *)
(***************************************************************************)

\* P/Y or C/Y is unset (0) or not positive.
frequencyUnset == Le(py, Zero) \/ Le(cy, Zero)

\* CPT (compute) or, after CPT, the key of varName (computeVariable) gets past
\* the P/Y and C/Y check to the solve call for varName: CPT with varName the
\* one unset register, CPT with every register set and varName computed last,
\* or the key of varName while CPT is armed.
reachesSolve(varName) ==
    /\ ~frequencyUnset
    /\ \/ computeArmed
       \/ blankVars = {varName}
       \/ blankVars = {} /\ lastComputedVar = varName

\* C26: the solvers are never invoked with an unset operand: in every
\* reachable state from which compute or computeVariable reaches the solve call
\* for a variable, P/Y >= 1, C/Y >= 1 and the four other TVM registers are set
\* (not null), also after RESET was pressed while CPT was armed.
C26_OperandsSet ==
    \A varName \in TvmVarSet :
        reachesSolve(varName)
            => Ge(py, One) /\ Ge(cy, One) /\ blankVars \subseteq {varName}

\* C26, its case: CPT is armed with P/Y and C/Y set and all five registers
\* set, so that any register key goes on to its solve call.
C26_ArmedWithOperands == computeArmed /\ ~frequencyUnset /\ blankVars = {}

\* C15: when P/Y or C/Y is unset or not positive, compute (CPT),
\* computeVariable (a register key after CPT) and entering amortization mode
\* (AMORT) end in an error and change no TVM register, lastComputed,
\* lastComputedVar or mode, nor the result on display or the amortization
\* result: no solver or rate conversion has stored anything.
C15_FrequenciesRequired ==
    [][(/\ frequencyUnset
        /\ compute \/ enterAmortMode \/ \E v \in TvmVarSet : armedKey(v))
         => /\ msgType' = "error"
            /\ UNCHANGED <<tvmRegs, lastComputed, lastComputedVar, mode>>
            /\ UNCHANGED <<entry, amortState>>]_vars

\* C15, its case: an error is up, not that of a settings key (the entry buffer
\* was not being typed), while C/Y is unset and P/Y, N, I/Y, PV and PMT are
\* set, so that AMORT and CPT had everything else they need.
C15_Refused ==
    /\ msgType = "error" /\ isNewEntry
    /\ Gt(py, Zero) /\ Le(cy, Zero)
    /\ blankVars = {"FV"}

(***************************************************************************)
(* Properties of CPT for N (SpecPeriods).                                  *)
(***************************************************************************)

\* CPT is about to solve for N: P/Y and C/Y are set and N is the one unset
\* register.
solvingN == frequenciesSet /\ blankVars = {"N"}

\* The periodic rate that compute() hands to solveN.
rateN == getPeriodicRate(IY, cy, py)

\* solveN's tests: the rate is zero, the payment is zero.
zeroRate == AbsLtPow10(rateN, 10)
zeroPayment == AbsLtPow10(PMT, 15)

\* The degenerate cases the closed-form branches are said to fail in: with
\* zero rate a zero payment; with zero payment and non-zero rate a zero PV or
\* FV/PV <= 0.
degenerateN ==
    IF zeroRate THEN zeroPayment
    ELSE zeroPayment /\ (AbsLtPow10(PV, 15) \/ Le(Div(FV, PV), Zero))

\* The closed-form branches' outcome under CPT, failing deciding whether the
\* case is one that fails: an error with N left unset when it is, else a
\* success that stores N, with zero rate N = (FV - PV) / PMT.
closedFormOutcome(failing) ==
    IF failing
    THEN msgType' = "error" /\ IsNull(N')
    ELSE /\ msgType' = "success" /\ ~IsNull(N')
         /\ zeroRate => N' = Div(Sub(FV, PV), PMT)

\* The numeric N search is what CPT stores when neither rate nor payment is
\* zero.
numericOutcome ==
    msgType' = "success" => N' = solveNNumeric(rateN, PV, PMT, FV, Bool(BGN))

\* C23, as stated: solveN's closed-form branches fail exactly in the degenerate
\* cases: with zero rate it returns (FV - PV) / PMT and fails iff PMT is zero;
\* with zero payment and non-zero rate it fails iff PV is zero or FV/PV <= 0;
\* in each failing case CPT for N reports an error and N stays unset.  Only
\* with rate and payment both non-zero is the numeric N search used.
C23_FailsIffDegenerate ==
    [][(solvingN /\ compute)
         => IF zeroRate \/ zeroPayment
            THEN closedFormOutcome(degenerateN)
            ELSE numericOutcome]_vars

\* C23, amended: as stated, but with zero payment and non-zero rate solveN also
\* fails when the periodic rate is below -100% (1 + i < 0, whose logarithm is
\* NaN), whatever PV and FV are.
C23_FailsIffDegenerateOrBelow ==
    [][(solvingN /\ compute)
         => IF zeroRate \/ zeroPayment
            THEN closedFormOutcome(degenerateN \/ Lt(Add(One, rateN), Zero))
            ELSE numericOutcome]_vars

\* C23, its case: CPT for N has reported an error in the lump-sum branch (the
\* entry buffer was not being typed, so the message is not that of a settings
\* key): the rate is not zero, the payment is zero and PV is zero, and N is
\* still unset.
C23_LumpSumRefused ==
    /\ msgType = "error" /\ isNewEntry /\ solvingN
    /\ ~zeroRate /\ zeroPayment /\ PV = Zero /\ Gt(Add(One, rateN), Zero)

(***************************************************************************)
(* Properties of the cash-flow worksheet (SpecCF).                         *)
(***************************************************************************)

\* C3: no operation (a TVM solve, NPV or IRR) stores a value that is not finite
\* in a TVM register or in lastComputed.
C3_StoredValuesFinite ==
    /\ \A v \in TvmVarSet : FiniteOrUnset(Reg(v))
    /\ FiniteOrUnset(lastComputed)

\* C12: the cash-flow series always has at least one entry, and DEL applied at
\* index 0 never shortens the series or shifts another entry into index 0: it
\* leaves the series as it is or, for a series of one, resets CF0 to 0.
C12_FirstFlowKept ==
    [][/\ Len(cashFlows') >= 1
       /\ (cfIndex = 0 /\ deleteCashFlow)
            => (cashFlows' = cashFlows \/ cashFlows' = <<Zero>>)]_vars

\* C12, its case: DEL was refused on CF0 of a series of two non-zero entries,
\* which is still in place.
C12_DeleteRefused ==
    /\ mode = "cf" /\ cfIndex = 0 /\ msgType = "error"
    /\ Len(cashFlows) = 2 /\ cashFlows[1] # Zero /\ cashFlows[2] # Zero
    /\ entry = String(cashFlows[1]) /\ isNewEntry

\* This step is INS, DEL or an ENTER store in cash-flow mode, or a reset.
explicitEdit == insertCashFlow \/ deleteCashFlow \/ storeCashFlow \/ reset

\* C13, as stated: the cash-flow series changes only in a step that is an INS,
\* a DEL, an ENTER store in cash-flow mode or a reset.
C13_OnlyExplicitEdits == [][cashFlows' # cashFlows => explicitEdit]_vars

\* C13, amended: the cash-flow series changes only in a step that is an INS, a
\* DEL, an ENTER store in cash-flow mode, a reset, or a DOWN navigation from
\* the last entry, which appends an entry 0; UP navigation, DOWN navigation
\* within the series, mode switching, NPV and IRR never change it.
C13_EditsOrAppend ==
    [][cashFlows' # cashFlows
         => \/ explicitEdit
            \/ /\ cfIndex = Len(cashFlows) - 1
               /\ cashFlows' = Append(cashFlows, Zero)
               /\ navigateCF("down")]_vars

\* C13, its case: after CF0 was stored, DOWN has appended CF1 = 0 and moved to it.
C13_Appended ==
    /\ mode = "cf" /\ cfIndex = 1 /\ msgType = "success"
    /\ Len(cashFlows) = 2 /\ cashFlows[1] # Zero /\ cashFlows[2] = Zero
    /\ entry = <<"0">> /\ isNewEntry

\* C28: the selected cash-flow index is always valid: in every reachable state
\* 0 <= cfIndex < cashFlows.length, whatever navigation, INS, DEL, ENTER, mode
\* switches and resets came before.
C28_IndexWithinSeries == cfIndex >= 0 /\ cfIndex < Len(cashFlows)

\* C28, its case: in cash-flow mode the last entry of a series of two is
\* selected, a 0 that INS or DOWN has just added after a stored CF0.
C28_LastSelected ==
    /\ mode = "cf" /\ Len(cashFlows) = 2 /\ cfIndex = 1
    /\ cashFlows[1] # Zero /\ cashFlows[2] = Zero
    /\ entry = <<"0">> /\ isNewEntry /\ msgType = "info"

\* C30: NPV and IRR leave N, PV, PMT, FV, C/Y, P/Y, BGN, lastComputedVar and
\* the cash-flow series unchanged; the only TVM register they write is I/Y,
\* where a successful IRR stores its annualized result (the value it also
\* leaves in lastComputed) and NPV stores the typed entry, and that only when
\* I/Y was unset; after success the mode is 'tvm'.
C30_NPVAndIRRFrame ==
    [][(msgType' \in {"success", "error"} /\ (calculateNPV \/ calculateIRR))
         => /\ UNCHANGED <<N, PV, PMT, FV, cy, py, BGN, lastComputedVar, cashFlows>>
            /\ msgType' = "success" => mode' = "tvm"
            /\ msgType' = "error" => IY' = IY
            /\ IY' # IY
                 => \/ IsNull(IY) /\ ~isNewEntry /\ IY' = getEntryValue
                    \/ hasPositive /\ hasNegative /\ IY' = lastComputed']_vars

\* C30, its case: IRR has succeeded on a series with an outflow and an inflow:
\* its rate is in I/Y and lastComputed, the calculator is back in TVM mode,
\* and no other register is set.
C30_IRRStored ==
    /\ msgType = "success" /\ mode = "tvm" /\ hasPositive /\ hasNegative
    /\ ~IsNull(IY) /\ IY = lastComputed /\ entry = replace(formatNumber(IY), ",")
    /\ blankVars = {"N", "PV", "PMT", "FV"} /\ lastComputedVar = NoVar

\* calculateIRR's preconditions are unmet: fewer than two entries, P/Y
\* unset, or no positive or no negative cash flow.
irrUnmet == Len(cashFlows) < 2 \/ Le(py, Zero) \/ ~hasPositive \/ ~hasNegative

\* C16: when the series has fewer than 2 entries, or P/Y is unset, or the
\* series lacks a positive or lacks a negative value, the IRR key ends in an
\* error, runs no search (the count of solver runs stays) and leaves I/Y,
\* lastComputed, the entry buffer and the mode unchanged.
C16_IRRFailsFast ==
    [][(irrUnmet /\ calculateIRR)
         => /\ msgType' = "error"
            /\ UNCHANGED <<IY, lastComputed, entry, isNewEntry, mode, solves>>]_vars

\* C16, its case: an error is up in cash-flow mode on a series of two
\* negative flows with P/Y and I/Y set, at CF1: neither NPV nor DEL is refused
\* there, and no entry is being typed.
C16_OneSignRefused ==
    /\ msgType = "error" /\ mode = "cf" /\ cfIndex = 1 /\ isNewEntry
    /\ Gt(py, Zero) /\ ~IsNull(IY)
    /\ Len(cashFlows) = 2 /\ hasNegative /\ ~hasPositive
    /\ Lt(cashFlows[1], Zero) /\ Lt(cashFlows[2], Zero)

(***************************************************************************)
(* Properties of the amortization worksheet (SpecAmort).                   *)
(***************************************************************************)

\* C10: in amortization mode the period range satisfies
\* 1 <= amortP1 <= amortP2 <= floor(N).
C10_RangeWithinN ==
    mode = "amort"
      => /\ 1 <= amortP1
         /\ amortP1 <= amortP2
         /\ IsUnrep(maxN) \/ (IsNum(maxN) /\ Le(Whole(amortP2), maxN))

\* The amortization result on display is r up to rounding, where the model
\* follows r.
currentAmort(r) ==
    amortRepresented(r)
      => /\ SameValue(amortResults.principal, r.principal)
         /\ SameValue(amortResults.interest, r.interest)
         /\ SameValue(amortResults.balance, r.balance)

\* C11: the amortization result is never stale: whenever amortResults is set
\* in amortization mode, the registers and settings it is computed from are
\* set and it equals the amortization of the current N, I/Y, PV, PMT, C/Y,
\* P/Y, timing and period range.
C11_AmortResultCurrent ==
    (mode = "amort" /\ amortResults # Null)
      => (~amortUnset /\ currentAmort(amortOf(amortP1, amortP2)))

\* C29: the amortization window is always a single period: in every reachable
\* state amortP1 = amortP2 and amortP1 >= 1.
C29_SinglePeriod == amortP1 = amortP2 /\ amortP1 >= 1

\* C29, its case: in amortization mode DOWN or ENTER has moved the window to
\* period 2 and its amortization is on display.
C29_SecondPeriod ==
    /\ mode = "amort" /\ amortP1 = 2 /\ amortP2 = 2
    /\ amortResults # Null /\ Ge(maxN, Whole(2))

\* C24: pressing AMORT while the calculator is in amortization mode always
\* returns it to TVM mode, in every reachable state, also after TVM registers
\* were stored or cleared while in amortization mode.
C24_AmortKeyLeaves == [][(mode = "amort" /\ enterAmortMode) => mode' = "tvm"]_vars

(***************************************************************************)
(* Properties of the solver functions (SpecMath).                          *)
(***************************************************************************)

\* The inputs on the bench are valid for a round trip: at least one period and
\* a periodic rate above -100%.
validInputs == bench.n >= 1 /\ Gt(bench.i, Whole(-1))

\* a is finite and within 1e-6 of the amount b: the fraction of a is, and the
\* double of a is nearer to it than 1e-7.
Recovers(a, b) == IsNum(a) /\ AbsLtPow10(FracSum(a, NegNum(ToNumber(b))), 6)

\* C5: for every valid n, i, pv, pmt and timing, solvePV of
\* fv = solveFV(n, i, pv, pmt, timing) recovers pv, and solvePMT of that fv
\* recovers pmt.
C5_RoundTrip ==
    validInputs
      => /\ bench.fn = "solvePV" => Recovers(bench.out, bench.pv)
         /\ bench.fn = "solvePMT" => Recovers(bench.out, bench.pmt)

\* C5, its case: solvePV has been applied to the future value of an annuity due
\* with a non-zero rate, present value and payment.
C5_RoundTripDone ==
    /\ bench.fn = "solvePV" /\ validInputs /\ bench.isBegin
    /\ bench.i # Zero /\ bench.pv # Zero /\ bench.pmt # Zero
    /\ bench.n >= 2

C7_EndingBalanceIsFV ==
    (bench.fn = "amort" /\ validInputs /\ IsNum(bench.mid) /\ bench.p2 = bench.n)
      => SameValue(bench.amort.balance, bench.fv)

\* The schedule on the bench runs over the whole term of a loan paid down to 0.
wholeTerm ==
    /\ bench.fn = "amort" /\ bench.n >= 1 /\ bench.fv = Zero
    /\ bench.p1 = 1 /\ bench.p2 = bench.n

\* C8, as stated: for fv = 0 the principal total over [1, n] equals -pv.
C8_PrincipalIsMinusPV == wholeTerm => SameValue(bench.amort.principal, Neg(bench.pv))

\* C8, amended: for fv = 0 and pmt = solvePMT(n, i, pv, 0, timing) the principal
\* total over [1, n] equals +pv under END timing, and -n * pmt under BEGIN
\* timing, where every payment is counted as principal in full.
C8_PrincipalTotal ==
    wholeTerm
      => SameValue(bench.amort.principal,
                   IF bench.isBegin THEN Neg(Mul(Whole(bench.n), bench.mid)) ELSE bench.pv)

\* C8, its case: a whole-term END schedule of a loan at a non-zero rate.
C8_WholeTermDone ==
    wholeTerm /\ ~bench.isBegin /\ bench.i # Zero /\ bench.pv # Zero /\ bench.n >= 2

\* The sum over the periods k..p2 of the portion (principal or interest) that
\* the single-period schedule [k, k] reports.
RECURSIVE portionSum(_, _, _)
portionSum(field, k, p2) ==
    IF k > p2 THEN Zero
    ELSE Add(benchAmort(bench.pmt, k, k)[field], portionSum(field, k + 1, p2))

\* C9: for every p1 in 1..p2 the ending balance is that of p1 = 1 (it depends
\* on p2 only), and the principal and interest totals are the sums of the
\* per-period portions of the periods p1..p2.
C9_RangeTotals ==
    bench.fn = "schedule"
      => /\ SameValue(bench.amort.balance, benchAmort(bench.pmt, 1, bench.p2).balance)
         /\ SameValue(bench.amort.principal, portionSum("principal", bench.p1, bench.p2))
         /\ SameValue(bench.amort.interest, portionSum("interest", bench.p1, bench.p2))

\* C9, its case: a schedule over a range that starts after period 1 and spans
\* more than one period, with a non-zero rate, balance and payment.
C9_RangeDone ==
    /\ bench.fn = "schedule" /\ bench.p1 >= 2 /\ bench.p2 > bench.p1
    /\ bench.i # Zero /\ bench.pv # Zero /\ bench.pmt # Zero

(***************************************************************************)
(* Properties of the searches applied on their own (SpecSolve).            *)
(***************************************************************************)

\* The bench holds a lump sum: no payment, a periodic rate above 0, PV an
\* outlay and FV a larger receipt.
lumpSumGrowth ==
    /\ bench.pmt = Zero /\ Gt(bench.i, Zero)
    /\ Lt(bench.pv, Zero) /\ Gt(bench.fv, Abs(bench.pv))

\* C18: for a lump sum (PMT = 0, i # 0) whose PV is an outlay and whose FV is
\* a receipt, solveN returns the finite number n of periods that grows |PV| to
\* |FV|: |PV| * (1+i)^n = |FV|, that is n = ln(|FV/PV|) / ln(1+i).
C18_LumpSumPeriods ==
    (bench.fn = "solveN" /\ lumpSumGrowth)
      => /\ IsNum(bench.mid)
         /\ SameValue(Mul(Abs(bench.pv), Pow(Add(One, bench.i), Unrounded(bench.mid))),
                      Abs(bench.fv))

(***************************************************************************)
(* Properties of the root finders as loops (SpecSearch).                   *)
(***************************************************************************)

\* The passes counted in b are within the iteration bounds of its search.
withinIterationBounds(b) ==
    /\ b.fn = "solveIY" => (b.newton <= 50 /\ b.bisect <= 100)
    /\ b.fn = "solveNNumeric" => (b.newton = 0 /\ b.probes <= 5 /\ b.bisect <= 100)
    /\ b.fn = "calculateIRR" => (b.newton <= 100 /\ b.bisect <= 100)

\* How far the invocation b has come: its loop, then its loop variable.
searchRank(b) ==
    1000 * (CASE b.pc = "newton" -> 0 [] b.pc = "fallback" -> 1
              [] b.pc = "bracket" -> 2 [] b.pc = "probe" -> 3
              [] b.pc = "bisect" -> 4 [] b.pc = "done" -> 5)
    + b.iter

\* C14: every root-finder invocation terminates by its iteration counts,
\* whatever the inputs make of each pass: the I/Y search makes at most 50
\* Newton passes and then at most 100 bisection passes, the N search at most 5
\* probes and 100 bisection passes, the IRR search at most 100 Newton passes
\* and 100 bisection passes, and every step moves the search on (to the next
\* pass or the next loop), so that no loop runs unboundedly.
C14_BoundedSearch ==
    [][/\ withinIterationBounds(bench')
       /\ searchRank(bench') > searchRank(bench)
       /\ searchRank(bench') <= 5000]_vars

\* C14, its case: an I/Y search has ended after all 50 Newton passes and all
\* 100 bisection passes.
C14_BoundsReached ==
    /\ bench.fn = "solveIY" /\ bench.pc = "done"
    /\ bench.newton = 50 /\ bench.bisect = 100

(***************************************************************************)
(* Properties of the rate estimate of the Newton loops (SpecNewton).       *)
(***************************************************************************)

\* C21: every iterate of the Newton phase stays inside the clamp range:
\* starting from 0.05 (I/Y search) or 0.1 (IRR search), after any number of
\* Newton steps with a finite residual and derivative the current rate
\* estimate i satisfies -0.99 < i <= 10.
C21_RateWithinClamp == Gt(bench.i, Q(-99, 100)) /\ Le(bench.i, Whole(10))

\* C21, its case: the IRR estimate after a step above 10, taken back to
\* (0.1 + 10) / 2 = 5.05, and a step below -0.99, taken back to
\* (5.05 - 0.99) / 2 = 2.03.
C21_ClampedBothWays ==
    /\ bench.fn = "calculateIRR" /\ bench.pc = "newton" /\ bench.iter = 2
    /\ SameValue(bench.i, Q(203, 100))

(***************************************************************************)
(* Properties of the bracket of the bisections (SpecBisect).               *)
(***************************************************************************)

\* The residuals at the ends of the bracket from lo to hi have opposite signs.
oppositeSigns(shape, lo, hi) == residualSign(shape, lo) * residualSign(shape, hi) < 0

\* The value returned, if any, lies within the bracket in force when the
\* bisection loop started.
returnedWithin(b) ==
    b.pc = "done" => (FLe(b.lo0, b.out) /\ FLe(b.out, b.hi0))

\* Opposite signs at the start of the bisection loop are still there after
\* every pass that does not return.
signsKept(b) ==
    (b.pc = "bisect" /\ oppositeSigns(b.shape, b.lo0, b.hi0))
        => oppositeSigns(b.shape, b.lo, b.hi)

C17_NPVAtIRRIsZero ==
    (bench.fn = "calculateIRR" /\ bench.pc = "done") => ~notConverged(bench.out)

\* C20: the rate that the I/Y search returns has a residual no larger than
\* that of any iterate that the Newton loop evaluated: neither the step-size
\* exit nor the bisection fallback replaces the best iterate by a worse rate.
C20_ReturnsBestSeen ==
    (bench.fn = "solveIY" /\ bench.pc = "done") => bench.out <= bench.seen

====
